---- MODULE Spec2Model ----
(***************************************************************************)
(* Model of the bulk-search pipeline of backend/analyzer.py                *)
(* (DeepAnalyzer.process_bulk_search and what it calls) and of the         *)
(* streaming caller in backend/main.py (bulk_search_stream).               *)
(***************************************************************************)
EXTENDS Integers, Sequences, FiniteSets, TLC

(***************************************************************************)
(* Bounds of the model.                                                    *)
(***************************************************************************)
MaxTarget == 3
MaxPageLen == 2
MaxScanLimit == 3
\* size of the largest batch of the pool specification
MaxBatch == 4
\* number of tokens a response text may lack at its end
MaxCut == 2
\* number of request threads that call get_analyzer
MaxThreads == 2

(***************************************************************************)
(* Python values of the listing records.  A dict key is either missing,    *)
(* or present with None (JSON null), a number or a string.  Ratings are    *)
(* kept in tenths (4.0 is Num(40)).                                        *)
(***************************************************************************)
Missing == [k |-> "missing", n |-> 0, s |-> ""]
PyNone == [k |-> "none", n |-> 0, s |-> ""]
Num(n) == [k |-> "num", n |-> n, s |-> ""]
Str(s) == [k |-> "str", n |-> 0, s |-> s]
\* a list of n elements
List(n) == [k |-> "list", n |-> n, s |-> ""]

\* dict.get(key, default): the default only replaces a missing key
Get(v, default) == IF v.k = "missing" THEN default ELSE v

\* Python truthiness of a value
Truthy(v) ==
  CASE v.k = "num" -> v.n # 0
    [] v.k = "str" -> v.s # ""
    [] v.k = "list" -> v.n # 0
    [] OTHER -> FALSE

(***************************************************************************)
(* The businesses a page of the listing source is made of.                 *)
(***************************************************************************)
PlainBusiness ==
  [name |-> Str("Cafe"), rating |-> Num(45), review_count |-> Num(120),
   phone_number |-> Str("+41"), website |-> Str("https://cafe.example"),
   photo_count |-> Num(12), business_status |-> Str("OPEN"),
   price_level |-> Missing, photos |-> Missing, place_id |-> Str("p1")]

\* has a website: full analysis by analyze_single
BizSite == PlainBusiness
\* no website: basic data only
BizNoSite == [PlainBusiness EXCEPT !.website = PyNone, !.place_id = Str("p2")]
\* explicitly not operational: rejected by every filter setting
BizClosed == [PlainBusiness EXCEPT !.business_status = Str("CLOSED"),
                                   !.place_id = Str("p3")]
\* the listing carries "name": null
BizNullName == [PlainBusiness EXCEPT !.name = PyNone, !.place_id = Str("p4")]
Businesses == {BizSite, BizNoSite, BizClosed, BizNullName}

(***************************************************************************)
(* Filter settings of a run (SniperFilters.dict()).  maxRating is in       *)
(* tenths, "any" is [k |-> "str", s |-> "any"].                            *)
(***************************************************************************)
AnyValue == Str("any")

FiltersAny ==
  [maxRating |-> AnyValue, minReviews |-> PyNone, priceLevel |-> {},
   mustHavePhone |-> FALSE, maxPhotos |-> AnyValue, websiteStatus |-> AnyValue]
FiltersHasWebsite == [FiltersAny EXCEPT !.websiteStatus = Str("has-website")]

FilterSettings == {FiltersAny, FiltersHasWebsite}

\* str(business.get("price_level", ""))
PriceStr(b) ==
  LET v == Get(b.price_level, Str(""))
  IN CASE v.k = "none" -> "None"
       [] v.k = "num" -> ToString(v.n)
       [] OTHER -> v.s

\* float(max_rating) of the strings of MaxRatingEnum, in tenths
float(v) ==
  CASE v.s = "4.8" -> 48
    [] v.s = "4.5" -> 45
    [] v.s = "4.0" -> 40
    [] v.s = "3.5" -> 35

\* int() reading the ceilings the other way round
int_Swapped(v) ==
  CASE v.s = "50" -> 100
    [] v.s = "100" -> 50
    [] v.s = "200" -> 200

\* int(max_photos) of the strings of MaxPhotosEnum
int(v) ==
  CASE v.s = "50" -> 50
    [] v.s = "100" -> 100
    [] v.s = "200" -> 200

\* _passes_filters: the filter that returns False ("rating", "reviews",
\* "price", "phone", "photos", "website", "status"), "none" when the
\* function returns True, "TypeError" when comparing None with a number
\* raises
FilteredOutBy(b, f) ==
  LET rating == Get(b.rating, PyNone)
      review_count == Get(b.review_count, Num(0))
      phone == Get(b.phone_number, PyNone)
      website == Get(b.website, PyNone)
      photo_count == Get(b.photo_count, Num(0))
      business_status == Get(b.business_status, PyNone)
      is_operational == IF Truthy(business_status)
                          THEN business_status = Str("OPEN") ELSE TRUE
      ratingActive == Truthy(f.maxRating) /\ f.maxRating # AnyValue
      reviewActive == Truthy(f.minReviews) /\ f.minReviews.n > 0
      priceActive == f.priceLevel # {} /\ "any" \notin f.priceLevel
      photoActive == Truthy(f.maxPhotos) /\ f.maxPhotos # AnyValue
      websiteActive == Truthy(f.websiteStatus) /\ f.websiteStatus # AnyValue
  IN IF ratingActive /\ rating.k = "num" /\ rating.n > float(f.maxRating)
       THEN "rating"
     ELSE IF reviewActive /\ review_count.k # "num" THEN "TypeError"
     ELSE IF reviewActive /\ review_count.n < f.minReviews.n THEN "reviews"
     ELSE IF priceActive /\ PriceStr(b) # "" /\ PriceStr(b) \notin f.priceLevel
       THEN "price"
     ELSE IF f.mustHavePhone /\ ~Truthy(phone) THEN "phone"
     ELSE IF photoActive /\ photo_count.k # "num" THEN "TypeError"
     ELSE IF photoActive /\ photo_count.n > int(f.maxPhotos) THEN "photos"
     ELSE IF /\ websiteActive /\ f.websiteStatus = Str("has-website")
             /\ ~Truthy(website) THEN "website"
     ELSE IF /\ websiteActive /\ f.websiteStatus = Str("no-website")
             /\ Truthy(website) THEN "website"
     ELSE IF Truthy(business_status) /\ ~is_operational THEN "status"
     ELSE "none"

\* comparing None with a number raises TypeError
_passes_filters_raises(b, f) == FilteredOutBy(b, f) = "TypeError"

\* the value returned when no comparison raises
_passes_filters(b, f) == FilteredOutBy(b, f) = "none"

(***************************************************************************)
(* State of one run of process_bulk_search and of its caller.              *)
(***************************************************************************)
VARIABLES
  target_results,    \* argument: number of leads to find
  max_scan_limit,    \* self.max_scan_limit
  filters,           \* argument: the filter settings
  stream_callback,   \* TRUE when on_lead_complete is attached
  pc,                \* position of the thread running process_bulk_search
  found_leads,       \* the accumulator
  scanned_count,
  page_count,
  next_page_token,
  last_fetch,        \* outcome of the latest _fetch_google_maps_page call
  businesses,        \* the page being processed
  idx,               \* position of the filter loop in the page
  passed_businesses,
  futures,           \* one entry per submitted business of the batch
  finished_order,    \* finished futures not yet yielded, oldest first
  ac_finished,       \* as_completed: finished at the call, not yet yielded
  waiter,            \* as_completed: finished since the call, not yet yielded
  n_yielded,         \* as_completed: number of futures yielded
  completed_count,   \* completed_count[0] of event_generator
  event_queue,       \* events put on event_queue, oldest first
  result,            \* what process_bulk_search returned
  gen,               \* position of event_generator of bulk_search_stream
  n_got,             \* number of events event_generator took off event_queue
  stream,            \* the events event_generator yielded, oldest first
  last_chunk,        \* kind of the latest chunk yielded: event or keep-alive
  call,              \* a call of one of the functions: its arguments
  ret,               \* what a call of a pure function returned
  enrich,            \* analyze_business: its position, locals and result
  environ,           \* names of the environment variables that are set
  store_reachable,   \* TRUE when the test query of the store succeeds
  _analyzer_instance, \* the module global: 0 for None, or an instance
  instances,         \* the DeepAnalyzer objects constructed so far
  threads            \* the request threads: position, analyzer, outcome

config == <<target_results, max_scan_limit, filters, stream_callback>>
loopvars == <<found_leads, scanned_count, page_count, next_page_token,
              last_fetch>>
pagevars == <<businesses, idx, passed_businesses>>
poolvars == <<futures, finished_order, ac_finished, waiter, n_yielded>>
streamvars == <<completed_count, event_queue>>
genvars == <<gen, n_got, stream, last_chunk>>
fnvars == <<call, ret, enrich>>
procvars == <<environ, store_reachable, _analyzer_instance, instances,
              threads>>
runvars == <<pc, loopvars, pagevars, poolvars, streamvars, result>>
vars == <<config, runvars, genvars, fnvars, procvars>>

NoToken == "None"
\* next_token of a fetched page: this API provides none
NextTokens == {NoToken}

NoResult == [status |-> "none", total_found |-> 0, total_scanned |-> 0,
             pages_fetched |-> 0, leads |-> <<>>]

SeqsUpTo(S, n) == UNION {[1..m -> S] : m \in 1..n}
\* the non-empty pages the listing source may return
Pages == SeqsUpTo(Businesses, MaxPageLen)
\* the pages of the pool specification: up to MaxBatch businesses that pass
\* every filter setting
PoolPages == SeqsUpTo({BizSite, BizNoSite}, MaxBatch)

\* a parsed object, by its entries; None, which a failed json.loads and a
\* rejected response leave
DictData(entries) == [k |-> "dict", entries |-> entries]
NoneData == [k |-> "none", entries |-> {}]

\* no function is being called
NoCall == [fn |-> "none"]
NoReturn == [state |-> "pending", bool |-> FALSE, int |-> 0, str |-> "",
             data |-> NoneData]

\* pagespeed_data, security_data and the lead record of analyze_business
\* before they are assigned
NoPagespeed == [k |-> "none", performance_score |-> PyNone]
\* analyze_business has not been called
NoEnrich ==
  [pc |-> "idle", url |-> PyNone, has_website |-> FALSE,
   pagespeed_data |-> NoPagespeed,
   security_data |-> [k |-> "none", security_score |-> PyNone,
                      security_issues |-> <<>>],
   response |-> [k |-> "none", text |-> <<>>], gemini_data |-> NoneData,
   lead |-> [k |-> "none", website |-> PyNone, ui_score |-> PyNone,
             seo_score |-> PyNone, tech_score |-> PyNone,
             total_score |-> PyNone, google_speed_score |-> PyNone,
             performance_score |-> PyNone, security_score |-> PyNone,
             lead_strength |-> PyNone, issues |-> <<>>],
   success |-> "pending", error |-> "", probes |-> {}, sink |-> "none"]

Threads == 1..MaxThreads
\* the os.getenv names __init__ tests or hands to a request
EnvNames == {"RAPIDAPI_KEY", "SUPABASE_URL", "SUPABASE_KEY"}
\* a thread before its request
NoThread == [pc |-> "idle", analyzer |-> 0, status |-> "none",
             saved |-> FALSE]
\* a process whose first get_analyzer call constructed the analyzer with
\* every credential set and the store reachable
OneAnalyzer ==
  /\ environ = EnvNames
  /\ store_reachable = TRUE
  /\ _analyzer_instance = 1
  /\ instances = <<[rapidapi_key |-> TRUE, supabase |-> TRUE]>>
  /\ threads = [t \in Threads |-> NoThread]

\* the state at the start of the pagination loop; event_generator, which
\* reads event_queue and writes nothing the run reads, has not started
Started ==
  /\ found_leads = <<>>
  /\ scanned_count = 0
  /\ page_count = 0
  /\ next_page_token = NoToken
  /\ last_fetch = "none"
  /\ businesses = <<>>
  /\ idx = 1
  /\ passed_businesses = <<>>
  /\ futures = <<>>
  /\ finished_order = <<>>
  /\ ac_finished = {}
  /\ waiter = <<>>
  /\ n_yielded = 0
  /\ completed_count = 0
  /\ event_queue = <<>>
  /\ result = NoResult
  /\ gen = "start"
  /\ n_got = 0
  /\ stream = <<>>
  /\ last_chunk = "none"

Init ==
  /\ target_results \in 1..MaxTarget
  /\ max_scan_limit = MaxScanLimit
  /\ filters \in FilterSettings
  /\ stream_callback \in BOOLEAN
  /\ pc = "while"
  /\ Started
  /\ OneAnalyzer
  /\ call = NoCall
  /\ ret = NoReturn
  /\ enrich = NoEnrich

(***************************************************************************)
(* The pagination loop.                                                    *)
(***************************************************************************)
\* the loop condition without the scan ceiling
LoopCondition_NoCeiling(found, target, scanned, limit) == Len(found) < target

\* while len(found_leads) < target_results and scanned_count < max_scan_limit
LoopCondition(found, target, scanned, limit) ==
  Len(found) < target /\ scanned < limit

WhileCheck ==
  /\ pc = "while"
  /\ IF LoopCondition(found_leads, target_results, scanned_count,
                      max_scan_limit)
       THEN /\ page_count' = page_count + 1
            /\ pc' = "fetch"
       ELSE /\ pc' = "return"
            /\ UNCHANGED page_count
  /\ UNCHANGED <<config, procvars, genvars, fnvars>>
  /\ UNCHANGED <<found_leads, scanned_count, next_page_token,
                 last_fetch, pagevars, poolvars, streamvars, result>>

\* a scan counter that ignores the page
ScannedAfter_Same(scanned, page) == scanned

\* scanned_count += len(businesses)
ScannedAfter(scanned, page) == scanned + Len(page)

\* the listing source returns a non-empty page
FetchPage ==
  /\ pc = "fetch"
  /\ \E page \in Pages, token \in NextTokens :
       /\ businesses' = page
       /\ next_page_token' = token
       /\ scanned_count' = ScannedAfter(scanned_count, page)
  /\ last_fetch' = "page"
  /\ passed_businesses' = <<>>
  /\ idx' = 1
  /\ pc' = "filter"
  /\ UNCHANGED <<config, procvars, genvars, fnvars>>
  /\ UNCHANGED <<found_leads, page_count, poolvars, streamvars,
                 result>>

\* the listing source returns a page of well-formed open businesses
FetchPoolPage ==
  /\ pc = "fetch"
  /\ \E page \in PoolPages, token \in NextTokens :
       /\ businesses' = page
       /\ next_page_token' = token
       /\ scanned_count' = ScannedAfter(scanned_count, page)
  /\ last_fetch' = "page"
  /\ passed_businesses' = <<>>
  /\ idx' = 1
  /\ pc' = "filter"
  /\ UNCHANGED <<config, procvars, genvars, fnvars>>
  /\ UNCHANGED <<found_leads, page_count, poolvars, streamvars,
                 result>>

\* an empty "data" list, or requests.exceptions.Timeout: ([], None)
FetchNothing ==
  /\ pc = "fetch"
  /\ \E outcome \in {"empty", "timeout"} : last_fetch' = outcome
  /\ next_page_token' = NoToken
  /\ businesses' = <<>>
  /\ pc' = "return"
  /\ UNCHANGED <<config, procvars, genvars, fnvars>>
  /\ UNCHANGED <<found_leads, scanned_count, page_count, idx,
                 passed_businesses, poolvars, streamvars, result>>

\* a loop that requests the page again after a failure
OnFetchError_Retry == "fetch"

\* except Exception: break
OnFetchError == "return"

\* any other exception of the fetch is caught by the loop, which breaks
FetchFail ==
  /\ pc = "fetch"
  /\ last_fetch' = "error"
  /\ pc' = OnFetchError
  /\ UNCHANGED <<config, procvars, genvars, fnvars>>
  /\ UNCHANGED <<found_leads, scanned_count, page_count,
                 next_page_token, pagevars, poolvars, streamvars, result>>

\* the filter loop without its early break
StopCollecting_Never(passed, found, target) == FALSE

\* if len(passed_businesses) + len(found_leads) >= target_results: break
StopCollecting(passed, found, target) == Len(passed) + Len(found) >= target

\* one iteration of the filter loop over the page
FilterStep ==
  /\ pc = "filter"
  /\ idx <= Len(businesses)
  /\ LET business == businesses[idx]
     IN IF Len(found_leads) >= target_results
          THEN pc' = "filtered" /\ UNCHANGED <<idx, passed_businesses>>
        ELSE IF _passes_filters_raises(business, filters)
          THEN pc' = "raised" /\ UNCHANGED <<idx, passed_businesses>>
        ELSE IF ~_passes_filters(business, filters)
          THEN pc' = "filter" /\ idx' = idx + 1
               /\ UNCHANGED passed_businesses
        ELSE IF Get(business.name, Str("Unknown")).k # "str"
          \* business_name[:40] of a name that is None
          THEN pc' = "raised" /\ UNCHANGED <<idx, passed_businesses>>
        ELSE /\ passed_businesses' = Append(passed_businesses, business)
             /\ idx' = idx + 1
             /\ pc' = IF StopCollecting(passed_businesses', found_leads,
                                        target_results)
                        THEN "filtered" ELSE "filter"
  /\ UNCHANGED <<config, procvars, genvars, fnvars>>
  /\ UNCHANGED <<loopvars, businesses, poolvars, streamvars, result>>

\* the page is exhausted
FilterExhausted ==
  /\ pc = "filter"
  /\ idx > Len(businesses)
  /\ pc' = "filtered"
  /\ UNCHANGED <<config, procvars, genvars, fnvars>>
  /\ UNCHANGED <<loopvars, pagevars, poolvars, streamvars, result>>

NewFuture == [state |-> "new", success |-> FALSE]

\* if len(passed_businesses) == 0: continue; else open the executor.
\* The page and the loop index stay as the filter loop left them until
\* the next fetch.
FilterEnd ==
  /\ pc = "filtered"
  /\ IF Len(passed_businesses) = 0
       THEN pc' = "while" /\ UNCHANGED poolvars
       ELSE /\ pc' = "submit"
            /\ futures' = [i \in 1..Len(passed_businesses) |-> NewFuture]
            /\ finished_order' = <<>>
            /\ ac_finished' = {}
            /\ waiter' = <<>>
            /\ n_yielded' = 0
  /\ UNCHANGED <<config, procvars, genvars, fnvars>>
  /\ UNCHANGED <<loopvars, pagevars, streamvars, result>>


(***************************************************************************)
(* The batch: ThreadPoolExecutor(max_workers=3), analyze_business and the  *)
(* as_completed loop.                                                      *)
(***************************************************************************)
\* a pool with one more worker
max_workers_More == 3 + 1

max_workers == 3

Running == {i \in DOMAIN futures : futures[i].state = "running"}
\* futures that count as finished once their task runs
Finished_Started ==
  {i \in DOMAIN futures : futures[i].state \in {"running", "finished"}}

Finished == {i \in DOMAIN futures : futures[i].state = "finished"}
PoolOpen == pc \in {"submit", "collect", "shutdown"}

\* _calculate_initial_score: len() of a "photos" value that is no list and
\* the comparison of a None review count with 20 raise TypeError
_calculate_initial_score_raises(b) ==
  \/ Get(b.photos, List(0)).k \notin {"list", "str"}
  \/ Get(b.review_count, Num(0)).k # "num"

\* the score when nothing raises; ratings are in tenths
_calculate_initial_score(b) ==
  LET rating == Get(b.rating, PyNone)
      photo_count == Get(b.photos, List(0)).n
      review_count == Get(b.review_count, Num(0))
      s1 == IF Truthy(rating) /\ rating.n < 40 THEN 100 - 20 ELSE 100
      s2 == IF photo_count < 10 THEN s1 - 15 ELSE s1
      s3 == IF ~Truthy(Get(b.website, PyNone)) THEN s2 - 30 ELSE s2
      score == IF review_count.n < 20 THEN s3 - 10 ELSE s3
      capped == IF score < 100 THEN score ELSE 100
  IN IF capped > 0 THEN capped ELSE 0

\* a classification that does not ask for a website
_calculate_lead_strength_AnyWebsite(total_score, website) ==
  IF total_score < 50 THEN "strong"
  ELSE IF total_score < 70 THEN "medium"
  ELSE "weak"

\* a classification with inclusive thresholds
_calculate_lead_strength_Inclusive(total_score, website) ==
  IF total_score <= 50 /\ Truthy(website) THEN "strong"
  ELSE IF total_score <= 70 THEN "medium"
  ELSE "weak"

_calculate_lead_strength(total_score, website) ==
  IF total_score < 50 /\ Truthy(website) THEN "strong"
  ELSE IF total_score < 70 THEN "medium"
  ELSE "weak"

\* the no-website branch of analyze_business: business_name[:40], then
\* _save_lead_to_database, which computes the initial score
SaveLeadRaises(b) ==
  \/ Get(b.name, Str("Unknown")).k # "str"
  \/ _calculate_initial_score_raises(b)

\* the outcomes analyze_business can have for a business: the full analysis
\* of a website depends on the external services and may raise
TaskOutcomes(b) ==
  IF Truthy(Get(b.website, PyNone)) THEN {TRUE, FALSE}
  ELSE {~SaveLeadRaises(b)}

\* lead_data of the i-th business of the batch of the current page; the id
\* stands for the uuid4 the record gets
LeadData(page, i, b) ==
  [id |-> <<page, i>>, place_id |-> Get(b.place_id, PyNone).s]

\* executor.submit of the next business of passed_businesses
SubmitStep ==
  /\ pc = "submit"
  /\ \E i \in DOMAIN futures :
       /\ futures[i].state = "new"
       /\ \A j \in 1..(i - 1) : futures[j].state # "new"
       /\ futures' = [futures EXCEPT ![i].state = "queued"]
  /\ UNCHANGED <<config, procvars, genvars, fnvars>>
  /\ UNCHANGED <<pc, loopvars, pagevars, finished_order, ac_finished,
                 waiter, n_yielded, streamvars, result>>

\* a worker thread takes the oldest queued work item
TaskStart ==
  /\ PoolOpen
  /\ Cardinality(Running) < max_workers
  /\ \E i \in DOMAIN futures :
       /\ futures[i].state = "queued"
       /\ \A j \in 1..(i - 1) : futures[j].state # "queued"
       /\ futures' = [futures EXCEPT ![i].state = "running"]
  /\ UNCHANGED <<config, procvars, genvars, fnvars>>
  /\ UNCHANGED <<pc, loopvars, pagevars, finished_order, ac_finished,
                 waiter, n_yielded, streamvars, result>>

\* analyze_business returns: the future is set to finished and, when the
\* as_completed waiter is installed, added to its finished_futures
TaskFinish ==
  /\ PoolOpen
  /\ \E i \in Running :
       \E ok \in TaskOutcomes(passed_businesses[i]) :
         /\ futures' = [futures EXCEPT ![i] =
                          [state |-> "finished", success |-> ok]]
         /\ finished_order' = Append(finished_order, i)
         /\ waiter' = IF pc = "collect" THEN Append(waiter, i) ELSE waiter
  /\ UNCHANGED <<config, procvars, genvars, fnvars>>
  /\ UNCHANGED <<pc, loopvars, pagevars, ac_finished, n_yielded,
                 streamvars, result>>

\* as_completed(futures) is entered once every business is submitted: the
\* futures already finished are yielded first, from a set
AsCompletedCall ==
  /\ pc = "submit"
  /\ \A i \in DOMAIN futures : futures[i].state # "new"
  /\ ac_finished' = Finished
  /\ waiter' = <<>>
  /\ pc' = "collect"
  /\ UNCHANGED <<config, procvars, genvars, fnvars>>
  /\ UNCHANGED <<loopvars, pagevars, futures, finished_order,
                 n_yielded, streamvars, result>>

\* as_completed without the reversal that keeps the finishing order
NextYield_Lifo(snapshot, w) ==
  IF snapshot # {} THEN snapshot
  ELSE IF w # <<>> THEN {w[Len(w)]}
  ELSE {}

\* the futures as_completed may yield next
NextYield(snapshot, w) ==
  IF snapshot # {} THEN snapshot
  ELSE IF w # <<>> THEN {Head(w)}
  ELSE {}

\* main.py on_lead_complete: the event put on the queue
ToFrontend(lead) == [id |-> lead.id, googleMapsPlaceId |-> lead.place_id]

\* the callback reporting the count before its increment
on_lead_complete_Stale(queue, count, lead) ==
  Append(queue, [type |-> "lead", data |-> ToFrontend(lead),
                 completed |-> count, totalFound |-> 0,
                 status |-> ""])

on_lead_complete(queue, count, lead) ==
  Append(queue, [type |-> "lead", data |-> ToFrontend(lead),
                 completed |-> count + 1, totalFound |-> 0,
                 status |-> ""])

\* appending whatever the task returned
AppendResult_Always(found, success, lead) == Append(found, lead)

\* if result["success"]: found_leads.append(result["data"])
AppendResult(found, success, lead) ==
  IF success THEN Append(found, lead) ELSE found

\* leaving the as_completed loop at the first lead
TargetReached_Early(found, target) == Len(found) >= 1

\* if len(found_leads) >= target_results: break
TargetReached(found, target) == Len(found) >= target

\* one iteration of "for future in as_completed(futures)"
CollectStep ==
  /\ pc = "collect"
  /\ \E i \in NextYield(ac_finished, waiter) :
       LET lead == LeadData(page_count, i, passed_businesses[i])
       IN /\ ac_finished' = ac_finished \ {i}
          /\ waiter' = SelectSeq(waiter, LAMBDA j : j # i)
          /\ n_yielded' = n_yielded + 1
          /\ finished_order' = SelectSeq(finished_order, LAMBDA j : j # i)
          /\ found_leads' = AppendResult(found_leads, futures[i].success,
                                          lead)
          /\ IF futures[i].success /\ stream_callback
               THEN /\ completed_count' = completed_count + 1
                    /\ event_queue' = on_lead_complete(event_queue,
                                                       completed_count, lead)
               ELSE UNCHANGED streamvars
          /\ pc' = IF \/ TargetReached(found_leads', target_results)
                      \/ n_yielded' = Len(futures)
                     THEN "shutdown" ELSE "collect"
  /\ UNCHANGED <<config, procvars, genvars, fnvars>>
  /\ UNCHANGED <<scanned_count, page_count, next_page_token,
                 last_fetch, pagevars, futures, result>>

\* leaving the "with" block: executor.shutdown(wait=True) returns once
\* every submitted task has finished; the executor, its futures and the
\* batch are not used again
Shutdown ==
  /\ pc = "shutdown"
  /\ Finished = DOMAIN futures
  /\ pc' = "check"
  /\ futures' = <<>>
  /\ finished_order' = <<>>
  /\ ac_finished' = {}
  /\ waiter' = <<>>
  /\ n_yielded' = 0
  /\ passed_businesses' = <<>>
  /\ UNCHANGED <<config, procvars, genvars, fnvars>>
  /\ UNCHANGED <<loopvars, businesses, idx, streamvars, result>>

\* the termination checks at the end of the loop body
CheckTermination ==
  /\ pc = "check"
  /\ pc' = IF next_page_token = NoToken THEN "return"
           ELSE IF scanned_count >= max_scan_limit THEN "return"
           ELSE "while"
  /\ UNCHANGED <<config, procvars, genvars, fnvars>>
  /\ UNCHANGED <<loopvars, pagevars, poolvars, streamvars, result>>

\* the status with a strict comparison
ResultStatus_Strict(found, target) ==
  IF Len(found) > target THEN "completed" ELSE "partial"

\* "status": "completed" if len(found_leads) >= target_results else "partial"
ResultStatus(found, target) ==
  IF Len(found) >= target THEN "completed" ELSE "partial"

Return ==
  /\ pc = "return"
  /\ result' = [status |-> ResultStatus(found_leads, target_results),
                total_found |-> Len(found_leads),
                total_scanned |-> scanned_count,
                pages_fetched |-> page_count,
                leads |-> found_leads]
  /\ pc' = "done"
  /\ UNCHANGED <<config, procvars, genvars, fnvars>>
  /\ UNCHANGED <<loopvars, pagevars, poolvars, streamvars>>

(***************************************************************************)
(* run_analyzer of main.py: the terminal event of the stream.              *)
(***************************************************************************)
NoData == [id |-> <<0, 0>>, googleMapsPlaceId |-> ""]
TerminalQueued ==
  \E k \in DOMAIN event_queue : event_queue[k].type \in {"complete", "error"}

SendComplete ==
  /\ pc = "done"
  /\ stream_callback
  /\ ~TerminalQueued
  /\ event_queue' = Append(event_queue,
       [type |-> "complete", data |-> NoData, completed |-> 0,
        totalFound |-> result.total_found, status |-> result.status])
  /\ UNCHANGED <<config, procvars, genvars, fnvars>>
  /\ UNCHANGED <<pc, loopvars, pagevars, poolvars, completed_count,
                 result>>

SendError ==
  /\ pc = "raised"
  /\ stream_callback
  /\ ~TerminalQueued
  /\ event_queue' = Append(event_queue,
       [type |-> "error", data |-> NoData, completed |-> 0,
        totalFound |-> 0, status |-> ""])
  /\ UNCHANGED <<config, procvars, genvars, fnvars>>
  /\ UNCHANGED <<pc, loopvars, pagevars, poolvars, completed_count,
                 result>>

(***************************************************************************)
(* event_generator of main.py: the consumer of event_queue.                *)
(***************************************************************************)
StatusEvent == [type |-> "status", data |-> NoData, completed |-> 0,
                totalFound |-> 0, status |-> ""]

\* the first chunk of the stream; then the analyzer thread is started
YieldStatus ==
  /\ gen = "start"
  /\ pc = "idle"
  /\ stream' = Append(stream, StatusEvent)
  /\ last_chunk' = "event"
  /\ gen' = "loop"
  /\ pc' = "while"
  /\ UNCHANGED <<config, procvars, fnvars, n_got, loopvars, pagevars, poolvars,
                 streamvars, result>>

\* a stream that only 'complete' ends
IsTerminal_OnlyComplete(event_type) == event_type = "complete"

\* if event_type in ("complete", "error"): break
IsTerminal(event_type) == event_type \in {"complete", "error"}

\* event_queue.get() returns the oldest event not yet taken; it is yielded
GetEvent ==
  /\ gen = "loop"
  /\ n_got < Len(event_queue)
  /\ LET event == event_queue[n_got + 1]
     IN /\ stream' = Append(stream, event)
        /\ gen' = IF IsTerminal(event.type) THEN "closed" ELSE "loop"
  /\ n_got' = n_got + 1
  /\ last_chunk' = "event"
  /\ UNCHANGED <<config, procvars, fnvars, runvars>>

\* a keep-alive that ends the stream
AfterKeepAlive_Close == "closed"

\* after ": keep-alive" the while True loop goes on
AfterKeepAlive == "loop"

\* asyncio.TimeoutError: no event arrived within 10 s
KeepAlive ==
  /\ gen = "loop"
  /\ n_got = Len(event_queue)
  /\ last_chunk' = "keep-alive"
  /\ gen' = AfterKeepAlive
  /\ UNCHANGED <<config, procvars, fnvars, runvars, n_got, stream>>

Next ==
  \/ WhileCheck
  \/ FetchPage
  \/ FetchNothing
  \/ FetchFail
  \/ FilterStep
  \/ FilterExhausted
  \/ FilterEnd
  \/ SubmitStep
  \/ TaskStart
  \/ TaskFinish
  \/ AsCompletedCall
  \/ CollectStep
  \/ Shutdown
  \/ CheckTermination
  \/ Return
  \/ SendComplete
  \/ SendError

Spec == Init /\ [][Next]_vars

(***************************************************************************)
(* The same run on pages large enough to fill the worker pool: a target of *)
(* MaxBatch leads and a listing source that returns well-formed pages.     *)
(***************************************************************************)
PoolInit ==
  /\ target_results = MaxBatch
  /\ max_scan_limit = MaxScanLimit
  /\ filters = FiltersAny
  /\ stream_callback \in BOOLEAN
  /\ pc = "while"
  /\ Started
  /\ OneAnalyzer
  /\ call = NoCall
  /\ ret = NoReturn
  /\ enrich = NoEnrich

PoolNext ==
  \/ WhileCheck
  \/ FetchPoolPage
  \/ FetchNothing
  \/ FetchFail
  \/ FilterStep
  \/ FilterExhausted
  \/ FilterEnd
  \/ SubmitStep
  \/ TaskStart
  \/ TaskFinish
  \/ AsCompletedCall
  \/ CollectStep
  \/ Shutdown
  \/ CheckTermination
  \/ Return
  \/ SendComplete

PoolSpec == PoolInit /\ [][PoolNext]_vars

\* every thread that can take a step eventually does; tasks terminate
LiveSpec == Spec /\ WF_vars(Next)

(***************************************************************************)
(* bulk_search_stream: event_generator yields the status event, starts the *)
(* analyzer thread and streams what the thread puts on event_queue.        *)
(***************************************************************************)
StreamInit ==
  /\ target_results \in 1..MaxTarget
  /\ max_scan_limit = MaxScanLimit
  /\ filters \in FilterSettings
  /\ stream_callback = TRUE
  /\ pc = "idle"
  /\ Started
  /\ OneAnalyzer
  /\ call = NoCall
  /\ ret = NoReturn
  /\ enrich = NoEnrich

StreamNext ==
  \/ YieldStatus
  \/ GetEvent
  \/ KeepAlive
  \/ Next

StreamSpec == StreamInit /\ [][StreamNext]_vars

LiveStreamSpec == StreamSpec /\ WF_vars(StreamNext)

Terminated == pc \in {"done", "raised"}


(***************************************************************************)
(* The text the generative service answers with, as a sequence of tokens:  *)
(* markdown fences, prose, braces, keys (with their colon) and values      *)
(* (with their comma).  A parsed object is the set of its entries, one     *)
(* per key, each under the path of keys that leads to it.                  *)
(***************************************************************************)
\* a fence of three backticks, followed by s
Fence(s) == [k |-> "fence", n |-> 0, s |-> s]
Prose == [k |-> "prose", n |-> 0, s |-> "Here is the analysis:"]
LB == [k |-> "{", n |-> 0, s |-> ""]
RB == [k |-> "}", n |-> 0, s |-> ""]
Key(s) == [k |-> "key", n |-> 0, s |-> s]
\* a string literal cut before its closing quote
OpenStr(s) == [k |-> "openstr", n |-> 0, s |-> s]
\* the value of a key that holds a mapping
Dict == [k |-> "dict", n |-> 0, s |-> ""]

\* the elements of the arrays of strings that occur, by the name of the
\* array; the arrays of _get_fallback_analysis are named by their main_issue
Items(s) ==
  CASE s = "two" -> <<"No contact form", "Outdated design">>
    [] s = "many" ->
         <<"No contact form", "Outdated design", "No contact form",
           "outdated design", "No SSL", "No sitemap", "No meta tags",
           "Slow images", "No analytics", "No imprint", "No favicon",
           "No alt texts", "No blog">>
    [] s \in {"Keine Website vorhanden",
              "Niedrige Bewertung und Verbesserungspotenzial",
              "Optimierungspotenzial vorhanden"} ->
         <<s, "Analyse nur mit Basis-Daten durchgefuehrt",
           "Detaillierte Analyse benoetigt AI-Integration">>
    [] OTHER -> <<>>

\* an array literal of strings
Array(s) == [k |-> "list", n |-> Len(Items(s)), s |-> s]

\* str.count of { and of } in the text of a token: a brace, or a string
\* literal that holds one
Opens(t) ==
  CASE t.k = "{" -> 1
    [] t.k \in {"str", "openstr"} /\ t.s \in {"hi {", "{name}"} -> 1
    [] OTHER -> 0
Closes(t) ==
  CASE t.k = "}" -> 1
    [] t.k \in {"str", "openstr"} /\ t.s \in {"10% }", "{name}"} -> 1
    [] OTHER -> 0

RECURSIVE Members(_, _, _, _)
\* json.loads from token i on, inside the object at path: a key with a
\* scalar or an array, a key that opens a nested object, or the closing
\* brace; the outermost closing brace has to be the last token
Members(toks, i, path, acc) ==
  IF i > Len(toks) THEN NoneData
  ELSE LET t == toks[i] IN
    CASE t.k = "}" ->
           IF path = <<>>
             THEN IF i = Len(toks) THEN DictData(acc) ELSE NoneData
           ELSE Members(toks, i + 1, SubSeq(path, 1, Len(path) - 1), acc)
      [] t.k = "key" /\ i < Len(toks) ->
           LET v == toks[i + 1]
               p == Append(path, t.s)
           IN CASE v.k \in {"str", "num", "list", "none"} ->
                     Members(toks, i + 2, path,
                             acc \cup {[path |-> p, v |-> v]})
                [] v.k = "{" ->
                     Members(toks, i + 2, p,
                             acc \cup {[path |-> p, v |-> Dict]})
                [] OTHER -> NoneData
      [] OTHER -> NoneData

\* json.loads of a text that is to be an object; a text that is no object
\* fails here, in the code it fails the check of the required fields
json_loads(toks) ==
  IF toks # <<>> /\ toks[1].k = "{" THEN Members(toks, 2, <<>>, {})
  ELSE NoneData

\* "field in data" and data[...].get(key, default) on a parsed object
Has(data, path) == \E e \in data.entries : e.path = path
Lookup(data, path, default) ==
  IF Has(data, path)
    THEN (CHOOSE e \in data.entries : e.path = path).v
  ELSE default

\* the three re.sub calls: a leading ```json or ```, a trailing ```
StripFences(toks) ==
  LET a == IF toks # <<>> /\ toks[1].k = "fence" THEN Tail(toks) ELSE toks
  IN IF a # <<>> /\ a[Len(a)] = Fence("")
       THEN SubSeq(a, 1, Len(a) - 1)
     ELSE a

\* cleaned[start:end+1] from the first { to the last } when the text does
\* not start with {; a last } inside a string literal cuts the literal
ExtractSpan(toks) ==
  LET O == {i \in DOMAIN toks : Opens(toks[i]) = 1}
      C == {i \in DOMAIN toks : Closes(toks[i]) = 1}
      start == CHOOSE i \in O : \A j \in O : i <= j
      end == CHOOSE i \in C : \A j \in C : j <= i
      cut == SubSeq(toks, start, end)
  IN IF toks # <<>> /\ toks[1].k = "{" THEN toks
     ELSE IF O = {} \/ C = {} THEN toks
     ELSE IF cut # <<>> /\ cut[Len(cut)].k = "str"
       THEN [cut EXCEPT ![Len(cut)] = OpenStr(cut[Len(cut)].s)]
     ELSE cut

\* one } is appended for every { in excess, those inside strings counted
RepairBraces(toks) ==
  LET o == Cardinality({i \in DOMAIN toks : Opens(toks[i]) = 1})
      c == Cardinality({i \in DOMAIN toks : Closes(toks[i]) = 1})
  IN IF o > c THEN toks \o [i \in 1..(o - c) |-> RB] ELSE toks

\* an odd number of quotes: a quote and a brace are appended; the quote
\* closes the string
\* literal left open (the last token of the text but for the braces
\* appended, which become part of the string) and adds one brace
RepairQuotes(toks) ==
  LET Q == {i \in DOMAIN toks : toks[i].k = "openstr"}
      i == CHOOSE j \in Q : \A m \in Q : m <= j
  IN IF Cardinality(Q) % 2 = 1
       THEN SubSeq(toks, 1, i - 1) \o <<Str(toks[i].s), RB>>
     ELSE toks

Cleaned(response_text) ==
  RepairQuotes(RepairBraces(ExtractSpan(StripFences(response_text))))

\* _parse_gemini_response: the parsed object, or None when json.loads
\* fails, a required field is missing or a nested value is no mapping
_parse_gemini_response(response_text) ==
  LET data == json_loads(Cleaned(response_text))
  IN IF /\ data.k = "dict"
        /\ \A f \in {"lead_quality", "scores", "report_card",
                     "email_pitch"} : Has(data, <<f>>)
        /\ \A f \in {"scores", "report_card", "email_pitch"} :
             Lookup(data, <<f>>, PyNone).k = "dict"
       THEN data
     ELSE NoneData

\* _get_fallback_analysis raises TypeError on a rating that is no number
_get_fallback_analysis_raises(url, map_data) ==
  /\ Truthy(url)
  /\ Truthy(Get(map_data.rating, Num(50)))
  /\ Get(map_data.rating, Num(50)).k # "num"

\* lead_quality and main_issue of _get_fallback_analysis; ratings in tenths
FallbackQuality(url, map_data) ==
  LET has_website == Truthy(url)
      rating == Get(map_data.rating, Num(50))
  IN IF ~has_website
       THEN <<"High", "Keine Website vorhanden">>
     ELSE IF Truthy(rating) /\ rating.n < 40
       THEN <<"High", "Niedrige Bewertung und Verbesserungspotenzial">>
     ELSE <<"Medium", "Optimierungspotenzial vorhanden">>

_get_fallback_analysis(url, map_data) ==
  LET q == FallbackQuality(url, map_data)
  IN DictData(
       {[path |-> <<"lead_quality">>, v |-> Str(q[1])],
        [path |-> <<"tech_stack">>, v |-> List(1)],
        [path |-> <<"scores">>, v |-> Dict],
        [path |-> <<"report_card">>, v |-> Dict],
        [path |-> <<"report_card", "issues_found">>, v |-> Array(q[2])],
        [path |-> <<"email_pitch">>, v |-> Dict]}
       \cup {[path |-> <<"scores", f>>, v |-> Num(50)] :
               f \in {"ui", "ux", "seo", "content", "total"}})

(***************************************************************************)
(* The response texts the parser is called on.                             *)
(***************************************************************************)
\* the "scores" value of a response: sub-scores in range, out of range,
\* none at all, a null total, and an array in place of the mapping
ScoresInRange ==
  <<LB, Key("ui"), Num(10), Key("ux"), Num(20), Key("seo"), Num(30),
    Key("content"), Num(40), Key("total"), Num(25), RB>>
ScoresOutOfRange ==
  <<LB, Key("ui"), Num(150), Key("ux"), Num(-5), Key("seo"), Num(120),
    Key("content"), Num(40), Key("total"), Num(130), RB>>
ScoresEmpty == <<LB, RB>>
ScoresNullTotal == <<LB, Key("total"), PyNone, RB>>
ScoresArray == <<List(4)>>

\* the text of the object the prompt asks for, without the key omit
ResponseObject(lead_quality, scores, issues_found, subject, omit) ==
  <<LB>>
  \o (IF omit = "lead_quality" THEN <<>>
      ELSE <<Key("lead_quality"), lead_quality>>)
  \o (IF omit = "scores" THEN <<>> ELSE <<Key("scores")>> \o scores)
  \o (IF omit = "report_card" THEN <<>>
      ELSE <<Key("report_card"), LB, Key("issues_found"), issues_found,
             RB>>)
  \o (IF omit = "email_pitch" THEN <<>>
      ELSE <<Key("email_pitch"), LB, Key("subject"), subject, RB>>)
  \o <<RB>>

\* a text that stops n tokens before its end
Truncated(toks, n) == SubSeq(toks, 1, Len(toks) - n)

\* a text that stops inside the string literal that is its last value
CutInString(toks) ==
  LET Q == {i \in DOMAIN toks : toks[i].k = "str"}
      i == CHOOSE j \in Q : \A m \in Q : m <= j
  IN SubSeq(toks, 1, i - 1) \o <<OpenStr(toks[i].s)>>

RequiredFields == {"lead_quality", "scores", "report_card", "email_pitch"}
Subjects == {Str("Hello"), Str("10% }"), Str("hi {"), Str("{name}")}

\* objects with and without each required field, with a mapping and with
\* an array as "scores", with braces inside a string
ResponseObjects ==
  {ResponseObject(Str("High"), sc, Array("two"), subject, omit) :
     sc \in {ScoresInRange, ScoresArray},
     subject \in Subjects,
     omit \in RequiredFields \cup {"none"}}

\* the texts: an object, whole, cut by up to MaxCut tokens or cut inside
\* a string, after prose or not, inside fences or not; and texts that hold
\* no object
ResponseTexts ==
  {opening \o pre \o body \o closing :
     opening \in {<<>>, <<Fence("json")>>, <<Fence("")>>},
     pre \in {<<>>, <<Prose>>},
     body \in {Truncated(o, n) : o \in ResponseObjects, n \in 0..MaxCut}
              \cup {CutInString(o) : o \in ResponseObjects},
     closing \in {<<>>, <<Fence("")>>}}
  \cup {<<>>, <<Prose>>}

\* the businesses and urls _get_fallback_analysis is called on
FallbackCandidates ==
  {[PlainBusiness EXCEPT !.rating = ra] :
     ra \in {Missing, PyNone, Num(0), Num(10), Num(39), Num(40), Num(45),
             Num(50)}}
Urls == {PyNone, Str(""), Str("https://cafe.example")}

(***************************************************************************)
(* The pure functions of the analyzer, each called once on arguments drawn *)
(* from the sets below.                                                    *)
(***************************************************************************)
\* candidates of the filter: every combination of absent, null and
\* threshold values of the attributes _passes_filters reads
FilterCandidates ==
  {[PlainBusiness EXCEPT !.rating = ra, !.review_count = rc,
                         !.price_level = pl, !.phone_number = ph,
                         !.photo_count = pc_, !.website = w,
                         !.business_status = st] :
     ra \in {Missing, Num(35), Num(40), Num(45)},
     rc \in {Missing, PyNone, Num(9), Num(10)},
     pl \in {Missing, PyNone, Num(2)},
     ph \in {Missing, Str("+41")},
     pc_ \in {Missing, Num(50), Num(51)},
     w \in {PyNone, Str("https://cafe.example")},
     st \in {Missing, Str("OPEN"), Str("CLOSED")}}

\* the values SniperFilters admits for each criterion
AllCriteria ==
  [maxRating : {AnyValue, PyNone, Str("4.0"), Str("3.5")},
   minReviews : {PyNone, Num(0), Num(10), Num(11)},
   priceLevel : {{}, {"any"}, {"1", "2"}, {"1"}, {"2"}},
   mustHavePhone : BOOLEAN,
   maxPhotos : {AnyValue, Str("100"), Str("50")},
   websiteStatus : {AnyValue, Str("has-website"), Str("no-website")}]

Fields ==
  {"maxRating", "minReviews", "priceLevel", "mustHavePhone", "maxPhotos",
   "websiteStatus"}

\* the settings that differ from the defaults in at most two criteria
Criteria ==
  {f \in AllCriteria :
     Cardinality({x \in Fields : f[x] # FiltersAny[x]}) <= 2}

\* candidates of the score: every combination of the values around the
\* four deductions
ScoreCandidates ==
  {[PlainBusiness EXCEPT !.rating = ra, !.photos = pl, !.photo_count = pc_,
                         !.website = w, !.review_count = rc] :
     ra \in {Missing, PyNone, Num(0), Num(39), Num(40), Num(45)},
     pl \in {Missing, PyNone, List(9), List(10)},
     pc_ \in {Missing, Num(9), Num(12)},
     w \in {Missing, PyNone, Str(""), Str("https://cafe.example")},
     rc \in {Missing, PyNone, Num(19), Num(20), Num(120)}}

Scores == 0..100

\* a header of a response, as the server sent it
H(name, value) == [name |-> name, value |-> value]

\* response.headers: the headers _calculate_security_score reads, with
\* at most one value for a name
HeaderSets ==
  LET HeaderValues ==
        [n \in {"Strict-Transport-Security", "X-Frame-Options",
                "X-Content-Type-Options", "X-Powered-By", "Server",
                "Content-Security-Policy", "Referrer-Policy",
                "Permissions-Policy", "Feature-Policy"} |->
           CASE n = "Strict-Transport-Security" -> {"max-age=31536000"}
             [] n = "X-Frame-Options" -> {"DENY"}
             [] n = "X-Content-Type-Options" ->
                  {"nosniff", "NoSniff", "none"}
             [] n = "X-Powered-By" -> {"PHP/8.1"}
             [] n = "Server" -> {"cloudflare", "nginx/1.18.0"}
             [] n = "Content-Security-Policy" ->
                  {"default-src 'self'", "Frame-Ancestors 'none'"}
             [] n = "Referrer-Policy" -> {"no-referrer"}
             [] n = "Permissions-Policy" -> {"camera=()"}
             [] OTHER -> {"camera 'none'"}]
  IN {h \in SUBSET UNION {{H(n, v) : v \in HeaderValues[n]} :
                            n \in DOMAIN HeaderValues} :
        \A x, y \in h : x.name = y.name => x = y}

\* a lower that leaves its argument as it is
lower_Identity(s) == s

\* str.lower of the names and values above
lower(s) ==
  CASE s = "Strict-Transport-Security" -> "strict-transport-security"
    [] s = "X-Frame-Options" -> "x-frame-options"
    [] s = "X-Content-Type-Options" -> "x-content-type-options"
    [] s = "X-Powered-By" -> "x-powered-by"
    [] s = "Server" -> "server"
    [] s = "Content-Security-Policy" -> "content-security-policy"
    [] s = "Referrer-Policy" -> "referrer-policy"
    [] s = "Permissions-Policy" -> "permissions-policy"
    [] s = "Feature-Policy" -> "feature-policy"
    [] s = "NoSniff" -> "nosniff"
    [] s = "DENY" -> "deny"
    [] s = "PHP/8.1" -> "php/8.1"
    [] s = "Frame-Ancestors 'none'" -> "frame-ancestors 'none'"
    [] OTHER -> s

\* the headers of a response with every header the audit asks for
GoodHeaders ==
  {H("Strict-Transport-Security", "max-age=31536000"),
   H("X-Frame-Options", "DENY"), H("X-Content-Type-Options", "nosniff"),
   H("Content-Security-Policy", "default-src 'self'"),
   H("Referrer-Policy", "no-referrer"), H("Permissions-Policy", "camera=()")}

\* the checks of _calculate_security_score in their order: when the check
\* fails, the deduction and the issue
SecurityChecks(response_headers) ==
  LET headers == {H(lower(x.name), x.value) : x \in response_headers}
      in_headers(n) == \E x \in headers : x.name = n
      get(n) == IF in_headers(n)
                  THEN (CHOOSE x \in headers : x.name = n).value
                ELSE ""
      has_frame_options == in_headers("x-frame-options")
      csp == get("content-security-policy")
      has_csp_frame == lower(csp) = "frame-ancestors 'none'"
      isdigit(v) == v \in {"nginx/1.18.0", "PHP/8.1"}
  IN <<[failed |-> ~in_headers("strict-transport-security"),
        deduction |-> 20,
        issue |-> "Missing HSTS Header - Vulnerable to SSL Stripping Attacks"],
       [failed |-> ~has_frame_options /\ ~has_csp_frame, deduction |-> 20,
        issue |-> "Missing Clickjacking Protection - No X-Frame-Options"
                    \o " or CSP frame-ancestors"],
       [failed |-> ~in_headers("x-content-type-options"), deduction |-> 10,
        issue |-> "Missing X-Content-Type-Options - Vulnerable to MIME"
                    \o " Sniffing Attacks"],
       [failed |-> /\ in_headers("x-content-type-options")
                   /\ lower(get("x-content-type-options")) # "nosniff",
        deduction |-> 5,
        issue |-> "X-Content-Type-Options present but not set to 'nosniff'"],
       [failed |-> in_headers("x-powered-by"), deduction |-> 10,
        issue |-> "Information Disclosure: X-Powered-By header reveals '"
                    \o get("x-powered-by") \o "'"],
       [failed |-> in_headers("server") /\ isdigit(get("server")),
        deduction |-> 10,
        issue |-> "Information Disclosure: Server header reveals version '"
                    \o get("server") \o "'"],
       [failed |-> ~in_headers("content-security-policy"),
        deduction |-> 10,
        issue |-> "Missing Content-Security-Policy - No protection against"
                    \o " XSS and injection attacks"],
       [failed |-> ~in_headers("referrer-policy"), deduction |-> 5,
        issue |-> "Missing Referrer-Policy - May leak sensitive"
                    \o " information in URLs"],
       [failed |-> /\ ~in_headers("permissions-policy")
                   /\ ~in_headers("feature-policy"),
        deduction |-> 5,
        issue |-> "Missing Permissions-Policy - No control over browser"
                    \o " features"]>>

RECURSIVE Audit(_, _, _)
\* score and issues after the checks from the i-th on
Audit(checks, i, acc) ==
  IF i > Len(checks) THEN acc
  ELSE IF checks[i].failed
    THEN Audit(checks, i + 1,
               [score |-> acc.score - checks[i].deduction,
                issues |-> Append(acc.issues, checks[i].issue)])
  ELSE Audit(checks, i + 1, acc)

SecurityData(score, issues) ==
  [k |-> "dict", security_score |-> score, security_issues |-> issues]

\* an audit that skips the test of the protocol
_calculate_security_score_AnyProtocol(response) ==
  LET a == Audit(SecurityChecks(response.headers), 1,
                 [score |-> 100, issues |-> <<>>])
  IN SecurityData(Num(a.score),
       IF a.issues = <<>> THEN <<"Excellent security configuration">>
       ELSE a.issues)

\* an audit that returns an empty issue list
_calculate_security_score_NoMessage(response) ==
  IF ~response.https THEN SecurityData(Num(0), <<"Critical">>)
  ELSE LET a == Audit(SecurityChecks(response.headers), 1,
                      [score |-> 100, issues |-> <<>>])
       IN SecurityData(Num(a.score), a.issues)

\* url.startswith('https://') decides first; then the checks, the floor
\* and the message of a response without issue
_calculate_security_score(response) ==
  IF ~response.https
    THEN SecurityData(Num(0),
           <<"Critical: Website uses HTTP instead of HTTPS"
               \o " - All data is transmitted unencrypted">>)
  ELSE LET a == Audit(SecurityChecks(response.headers), 1,
                      [score |-> 100, issues |-> <<>>])
       IN SecurityData(Num(IF a.score > 0 THEN a.score ELSE 0),
            IF a.issues = <<>>
              THEN <<"Excellent security configuration - All recommended"
                       \o " headers present">>
            ELSE a.issues)

Calls ==
  [fn : {"_passes_filters"}, business : FilterCandidates, filters : Criteria]
  \cup [fn : {"_calculate_initial_score"}, business : ScoreCandidates]
  \cup [fn : {"_calculate_lead_strength"}, total_score : Scores,
        website : {PyNone, Str(""), Str("https://cafe.example")}]
  \cup [fn : {"_parse_gemini_response"}, response_text : ResponseTexts]
  \cup [fn : {"_get_fallback_analysis"}, url : Urls,
        map_data : FallbackCandidates]
  \cup [fn : {"_save_lead_to_database"}, business : ScoreCandidates]
  \cup [fn : {"_calculate_security_score"},
        response : [k : {"response"}, https : BOOLEAN,
                    headers : HeaderSets]]

FnInit ==
  /\ target_results = 1
  /\ max_scan_limit = MaxScanLimit
  /\ filters = FiltersAny
  /\ stream_callback = FALSE
  /\ pc = "idle"
  /\ Started
  /\ OneAnalyzer
  /\ call \in Calls
  /\ ret = NoReturn
  /\ enrich = NoEnrich

Raised == [NoReturn EXCEPT !.state = "raised", !.str = "TypeError"]

Call_passes_filters ==
  /\ call.fn = "_passes_filters"
  /\ ret.state = "pending"
  /\ LET why == FilteredOutBy(call.business, call.filters)
     IN ret' = IF _passes_filters_raises(call.business, call.filters)
                 THEN Raised
               ELSE [NoReturn EXCEPT
                       !.state = "returned",
                       !.bool = _passes_filters(call.business, call.filters),
                       !.str = why]
  /\ UNCHANGED <<config, procvars, runvars, genvars, call, enrich>>

Call_calculate_initial_score ==
  /\ call.fn = "_calculate_initial_score"
  /\ ret.state = "pending"
  /\ ret' = IF _calculate_initial_score_raises(call.business) THEN Raised
            ELSE [NoReturn EXCEPT
                    !.state = "returned",
                    !.int = _calculate_initial_score(call.business)]
  /\ UNCHANGED <<config, procvars, runvars, genvars, call, enrich>>

Call_calculate_lead_strength ==
  /\ call.fn = "_calculate_lead_strength"
  /\ ret.state = "pending"
  /\ ret' = [NoReturn EXCEPT
               !.state = "returned",
               !.str = _calculate_lead_strength(call.total_score,
                                                call.website)]
  /\ UNCHANGED <<config, procvars, runvars, genvars, call, enrich>>

Call_parse_gemini_response ==
  /\ call.fn = "_parse_gemini_response"
  /\ ret.state = "pending"
  /\ ret' = [NoReturn EXCEPT
               !.state = "returned",
               !.data = _parse_gemini_response(call.response_text)]
  /\ UNCHANGED <<config, procvars, runvars, genvars, call, enrich>>

Call_get_fallback_analysis ==
  /\ call.fn = "_get_fallback_analysis"
  /\ ret.state = "pending"
  /\ ret' = IF _get_fallback_analysis_raises(call.url, call.map_data)
              THEN Raised
            ELSE [NoReturn EXCEPT
                    !.state = "returned",
                    !.data = _get_fallback_analysis(call.url,
                                                    call.map_data)]
  /\ UNCHANGED <<config, procvars, runvars, genvars, call, enrich>>

Call_calculate_security_score ==
  /\ call.fn = "_calculate_security_score"
  /\ ret.state = "pending"
  /\ ret' = [NoReturn EXCEPT
               !.state = "returned",
               !.data = _calculate_security_score(call.response)]
  /\ UNCHANGED <<config, procvars, runvars, genvars, call, enrich>>

\* the score and the strength _save_lead_to_database gives a business
Call_save_lead_to_database ==
  /\ call.fn = "_save_lead_to_database"
  /\ ret.state = "pending"
  /\ LET website == Get(call.business.website, Str(""))
         total_score == _calculate_initial_score(call.business)
     IN ret' = IF _calculate_initial_score_raises(call.business)
                 THEN Raised
               ELSE [NoReturn EXCEPT
                       !.state = "returned",
                       !.int = total_score,
                       !.str = _calculate_lead_strength(total_score,
                                                        website)]
  /\ UNCHANGED <<config, procvars, runvars, genvars, call, enrich>>

FnNext ==
  \/ Call_passes_filters
  \/ Call_calculate_initial_score
  \/ Call_calculate_lead_strength
  \/ Call_parse_gemini_response
  \/ Call_get_fallback_analysis
  \/ Call_calculate_security_score
  \/ Call_save_lead_to_database

FnSpec == FnInit /\ [][FnNext]_vars

(***************************************************************************)
(* analyze_business: the enrichment of one business, step by step, on the  *)
(* answers of the performance service, of the website and of the           *)
(* generative service.                                                     *)
(***************************************************************************)
\* str.strip of a website
strip(v) == IF v.k = "str" /\ v.s = " " THEN Str("") ELSE v
\* str() of a value inside an f-string
PyStr(v) == IF v.k = "none" THEN "None" ELSE v.s

\* the businesses analyze_business is called on: with and without name,
\* website, rating, review count and listing ids
EnrichCandidates ==
  {[f \in DOMAIN PlainBusiness \cup {"google_id"} |->
      CASE f = "name" -> nm
        [] f = "website" -> w
        [] f = "rating" -> ra
        [] f = "review_count" -> rc
        [] f = "place_id" -> ids[1]
        [] f = "google_id" -> ids[2]
        [] OTHER -> PlainBusiness[f]] :
     nm \in {Str("Cafe"), PyNone},
     w \in {PyNone, Str(""), Str(" "), Str("https://cafe.example")},
     ra \in {Missing, Num(0), Num(39), Num(45)},
     rc \in {Num(120), PyNone},
     ids \in {<<Str("p1"), Missing>>, <<Missing, Str("g1")>>,
              <<Missing, Missing>>}}

\* what requests.get of the PageSpeed endpoint does: it raises, or answers
\* with a status and, under categories.performance, a score from 0 to 1
PagespeedOutcomes ==
  [k : {"Timeout", "Exception"}, status : {0}, score : {Missing}]
  \cup [k : {"response"}, status : {500}, score : {Missing}]
  \cup [k : {"response"}, status : {200},
        score : {Missing, PyNone, Str("0"), Str("0.29"), Str("0.9")}]

\* int(score * 100) in floating point
Times100(v) ==
  CASE v.s = "0" -> 0
    [] v.s = "0.29" -> 28
    [] v.s = "0.9" -> 90
    [] OTHER -> 100

PagespeedData(n) == [k |-> "dict", performance_score |-> Num(n)]

\* _fetch_pagespeed_data: None without credential, on an exception, on a
\* status other than 200 and on a null score (None * 100 raises, caught)
_fetch_pagespeed_data(google_cloud_api_key, out) ==
  IF ~google_cloud_api_key THEN NoPagespeed
  ELSE IF out.k # "response" \/ out.status # 200 THEN NoPagespeed
  ELSE IF out.score.k = "none" THEN NoPagespeed
  ELSE PagespeedData(Times100(Get(out.score, Str("0"))))

\* what requests.get of the website does: it raises Timeout, another
\* RequestException or an exception of another class (LocationParseError
\* of urllib3 for a host with an empty label), or it answers
SecurityOutcomes ==
  [k : {"Timeout", "RequestException", "Exception"}, https : {FALSE},
   headers : {{}}]
  \cup [k : {"response"}, https : {FALSE}, headers : {{}}]
  \cup [k : {"response"}, https : {TRUE},
        headers : {GoodHeaders,
                   {x \in GoodHeaders :
                      x.name \notin {"Strict-Transport-Security",
                                     "Referrer-Policy"}},
                   {},
                   {H("X-Content-Type-Options", "none"),
                    H("X-Powered-By", "PHP/8.1"),
                    H("Server", "nginx/1.18.0")}}]

\* only Timeout and RequestException are caught
_fetch_website_for_security_check_raises(out) == out.k = "Exception"

_fetch_website_for_security_check(out) ==
  CASE out.k = "Timeout" ->
         SecurityData(PyNone,
           <<"Could not perform security audit - Website timeout">>)
    [] out.k = "RequestException" ->
         SecurityData(PyNone,
           <<"Could not perform security audit - Connection refused">>)
    [] OTHER -> _calculate_security_score(out)

\* the answers of the generative service in analyze_business: objects with
\* sub-scores in and out of range, a text without object, an object
\* without "scores", one with an array as "scores", one with a null total
\* and null issues, and a fenced object that lacks its last brace
PipelineResponses ==
  {<<Fence("json")>>
     \o ResponseObject(Str("High"), ScoresInRange, Array("two"),
                       Str("Hello"), "none")
     \o <<Fence("")>>,
   ResponseObject(Str("Low"), ScoresOutOfRange, Array("many"),
                  Str("Hello"), "none"),
   ResponseObject(Str("Medium"), ScoresEmpty, Array("empty"), Str("Hello"),
                  "none"),
   <<Prose>>,
   ResponseObject(Str("High"), ScoresInRange, Array("two"), Str("Hello"),
                  "scores"),
   ResponseObject(Str("High"), ScoresArray, Array("two"), Str("Hello"),
                  "none"),
   ResponseObject(Str("Low"), ScoresNullTotal, PyNone, Str("Hello"),
                  "none"),
   <<Fence("json")>>
     \o Truncated(ResponseObject(Str("Medium"), ScoresInRange,
                                 Array("two"), Str("Hello"), "none"), 1)
     \o <<Fence("")>>}

\* what model.generate_content does: it raises or answers with a text
GeminiOutcomes ==
  {[k |-> "Exception", text |-> <<>>]}
  \cup [k : {"response"}, text : PipelineResponses]

\* _analyze_with_gemini slices the name before its try block
_analyze_with_gemini_raises(gemini_api_key, url, map_data) ==
  \/ gemini_api_key /\ Get(map_data.name, Str("Unknown")).k # "str"
  \/ _get_fallback_analysis_raises(url, map_data)

_analyze_with_gemini(gemini_api_key, url, map_data, out) ==
  IF ~gemini_api_key THEN _get_fallback_analysis(url, map_data)
  ELSE IF out.k # "response" THEN _get_fallback_analysis(url, map_data)
  ELSE IF _parse_gemini_response(out.text).k = "none"
    THEN _get_fallback_analysis(url, map_data)
  ELSE _parse_gemini_response(out.text)

\* place_id = business.get("place_id") or business.get("google_id")
PlaceId(business) ==
  IF Truthy(Get(business.place_id, PyNone))
    THEN Get(business.place_id, PyNone)
  ELSE Get(business.google_id, PyNone)

\* website or f"no-website-{place_id}"
WebsiteOrPlaceholder(website, business) ==
  IF Truthy(website) THEN website
  ELSE Str("no-website-" \o PyStr(PlaceId(business)))

\* a tier-to-strength table that takes "Medium" for weak
lead_strength_map_Lower(lead_quality) ==
  CASE lead_quality = Str("High") -> "strong"
    [] lead_quality = Str("Medium") -> "weak"
    [] lead_quality = Str("Low") -> "weak"
    [] OTHER -> "medium"

\* lead_strength_map.get(lead_quality, "medium")
lead_strength_map(lead_quality) ==
  CASE lead_quality = Str("High") -> "strong"
    [] lead_quality = Str("Medium") -> "medium"
    [] lead_quality = Str("Low") -> "weak"
    [] OTHER -> "medium"

\* a speed score that takes a performance score of 0 for an absent one
GoogleSpeedScore_Truthy(performance_score, total_score) ==
  IF Truthy(performance_score) THEN performance_score
  ELSE Num(IF total_score.n - 20 > 0 THEN total_score.n - 20 ELSE 0)

\* performance_score if performance_score is not None else
\* max(0, total_score - 20)
GoogleSpeedScore(performance_score, total_score) ==
  IF performance_score.k # "none" THEN performance_score
  ELSE Num(IF total_score.n - 20 > 0 THEN total_score.n - 20 ELSE 0)

\* _merge_analysis_data raises TypeError on total_score - 20 with a total
\* that is no number and on security_issues[:2] + issues_found with
\* issues that are no list
_merge_analysis_data_raises(pagespeed_data, security_data, gemini_data) ==
  \/ /\ pagespeed_data.k = "none"
     /\ Lookup(gemini_data, <<"scores", "total">>, Num(50)).k # "num"
  \/ /\ security_data.security_issues # <<>>
     /\ Lookup(gemini_data, <<"report_card", "issues_found">>,
               List(0)).k # "list"

\* complete_analysis: the sub-scores of gemini_data as they are, the
\* scores of the probes, the strength of the lead quality
_merge_analysis_data(url, map_data, pagespeed_data, security_data, gemini_data) ==
  LET total_score == Lookup(gemini_data, <<"scores", "total">>, Num(50))
      performance_score ==
        IF pagespeed_data.k = "dict" THEN pagespeed_data.performance_score
        ELSE PyNone
  IN [k |-> "dict",
      website |-> WebsiteOrPlaceholder(url, map_data),
      ui_score |-> Lookup(gemini_data, <<"scores", "ui">>, Num(50)),
      seo_score |-> Lookup(gemini_data, <<"scores", "seo">>, Num(50)),
      tech_score |-> Lookup(gemini_data, <<"scores", "ux">>, Num(50)),
      total_score |-> total_score,
      google_speed_score |-> GoogleSpeedScore(performance_score,
                                              total_score),
      performance_score |-> performance_score,
      security_score |->
        IF security_data.k = "dict" THEN security_data.security_score
        ELSE PyNone,
      lead_strength |->
        Str(lead_strength_map(
              Lookup(gemini_data, <<"lead_quality">>, Str("Medium")))),
      issues |-> <<>>]

\* lead_data of _save_lead_to_database: no score of a probe, no issues
SavedLead(business) ==
  LET website == Get(business.website, Str(""))
      total_score == _calculate_initial_score(business)
  IN [k |-> "dict",
      website |-> WebsiteOrPlaceholder(website, business),
      ui_score |-> Num(0),
      seo_score |-> Num(0),
      tech_score |-> Num(0),
      total_score |-> Num(total_score),
      google_speed_score |-> Num(0),
      performance_score |-> Missing,
      security_score |-> Missing,
      lead_strength |-> Str(_calculate_lead_strength(total_score, website)),
      issues |-> <<>>]

\* the number of security issues analyze_single shows, and of issues in all
SecurityIssuesShown == 3
MaxIssues == 10

Take(seq, n) == SubSeq(seq, 1, IF Len(seq) < n THEN Len(seq) ELSE n)
Range(seq) == {seq[i] : i \in DOMAIN seq}

RECURSIVE Dedupe_Adjacent(_, _)
\* a loop that only skips an issue equal to the one before it
Dedupe_Adjacent(issues, deduped) ==
  IF issues = <<>> THEN deduped
  ELSE IF \/ Head(issues) = ""
          \/ deduped # <<>> /\ deduped[Len(deduped)] = Head(issues)
    THEN Dedupe_Adjacent(Tail(issues), deduped)
  ELSE Dedupe_Adjacent(Tail(issues), Append(deduped, Head(issues)))

RECURSIVE Dedupe(_, _)
\* the de-duplication loop: an empty issue and an issue seen are skipped
Dedupe(issues, deduped) ==
  IF issues = <<>> THEN deduped
  ELSE IF Head(issues) = "" \/ Head(issues) \in Range(deduped)
    THEN Dedupe(Tail(issues), deduped)
  ELSE Dedupe(Tail(issues), Append(deduped, Head(issues)))

\* issues_for_ui before the de-duplication: security issues, the issue of
\* the performance probe, the issues of gemini_data
IssuesCollected(has_website, pagespeed_data, security_data, gemini_data) ==
  LET issues_found ==
        Lookup(gemini_data, <<"report_card", "issues_found">>, List(0))
  IN Take(security_data.security_issues, SecurityIssuesShown)
     \o (IF ~has_website THEN <<>>
         ELSE IF pagespeed_data.k = "none"
           THEN <<"PageSpeed: Timeout / Unavailable">>
         ELSE IF pagespeed_data.performance_score.n < 50
           THEN <<"Low PageSpeed score ("
                    \o ToString(pagespeed_data.performance_score.n)
                    \o "/100)">>
         ELSE <<>>)
     \o (IF Truthy(issues_found) THEN Items(issues_found.s) ELSE <<>>)

issues_for_ui(has_website, pagespeed_data, security_data, gemini_data) ==
  Take(Dedupe(IssuesCollected(has_website, pagespeed_data, security_data,
                              gemini_data), <<>>),
       MaxIssues)

\* analyze_business returns {"success": False} on an exception
Excepted(e, error) ==
  [e EXCEPT !.pc = "returned", !.success = "false", !.error = error]

\* what the upsert of a record does: nothing is sent without a store, and
\* the store saves the record or the request raises
SinkOutcomes(supabase) ==
  IF supabase THEN {"saved", "failed"} ELSE {"unavailable"}

\* a save whose exception reaches analyze_business
Upsert_Propagate(e, sink) ==
  IF sink = "failed" THEN Excepted([e EXCEPT !.sink = sink], "Exception")
  ELSE [e EXCEPT !.sink = sink]

\* the save step: "if self.supabase", and try/except Exception around the
\* upsert, after which the record is returned in every case
Upsert(e, sink) == [e EXCEPT !.sink = sink]

\* analyze_business up to the choice of its branch; analyze_single up to
\* its first step
AnalyzeBusiness ==
  /\ call.fn = "analyze_business"
  /\ enrich.pc = "idle"
  /\ LET business == call.business
         website == Get(business.website, PyNone)
         url == strip(website)
     IN enrich' =
          IF Truthy(website)
            THEN [enrich EXCEPT
                    !.url = url,
                    !.has_website = Truthy(url),
                    !.pc = IF Truthy(url) THEN "pagespeed" ELSE "gemini"]
          ELSE IF Get(business.name, Str("Unknown")).k # "str"
            THEN Excepted(enrich, "TypeError")
          ELSE [enrich EXCEPT !.pc = "save"]
  /\ UNCHANGED <<config, procvars, runvars, genvars, call, ret>>

\* the branch without website: _save_lead_to_database
SaveLeadToDatabase ==
  /\ enrich.pc = "save"
  /\ IF _calculate_initial_score_raises(call.business)
       THEN enrich' = Excepted(enrich, "TypeError")
       ELSE \E sink \in
                 SinkOutcomes(instances[_analyzer_instance].supabase) :
              enrich' =
                Upsert([enrich EXCEPT !.pc = "returned",
                                      !.success = "true",
                                      !.lead = SavedLead(call.business)],
                       sink)
  /\ UNCHANGED <<config, procvars, runvars, genvars, call, ret>>

\* step 1 of analyze_single
FetchPagespeedData ==
  /\ enrich.pc = "pagespeed"
  /\ \E out \in PagespeedOutcomes :
       enrich' =
         [enrich EXCEPT
            !.pc = "security",
            !.probes = @ \cup {"pagespeed"},
            !.pagespeed_data =
              _fetch_pagespeed_data(call.google_cloud_api_key, out)]
  /\ UNCHANGED <<config, procvars, runvars, genvars, call, ret>>

\* step 2 of analyze_single
FetchWebsiteForSecurityCheck ==
  /\ enrich.pc = "security"
  /\ \E out \in SecurityOutcomes :
       enrich' =
         IF _fetch_website_for_security_check_raises(out)
           THEN Excepted([enrich EXCEPT !.probes = @ \cup {"security"}],
                         "Exception")
         ELSE [enrich EXCEPT
                 !.pc = "gemini",
                 !.probes = @ \cup {"security"},
                 !.security_data = _fetch_website_for_security_check(out)]
  /\ UNCHANGED <<config, procvars, runvars, genvars, call, ret>>

\* step 3 of analyze_single
AnalyzeWithGemini ==
  /\ enrich.pc = "gemini"
  /\ \E out \in IF call.gemini_api_key THEN GeminiOutcomes
                ELSE {[k |-> "none", text |-> <<>>]} :
       enrich' =
         IF _analyze_with_gemini_raises(call.gemini_api_key, enrich.url,
                                        call.business)
           THEN Excepted([enrich EXCEPT !.probes = @ \cup {"gemini"}],
                         "TypeError")
         ELSE [enrich EXCEPT
                 !.pc = "merge",
                 !.probes = @ \cup {"gemini"},
                 !.response = out,
                 !.gemini_data =
                   _analyze_with_gemini(call.gemini_api_key, enrich.url,
                                        call.business, out)]
  /\ UNCHANGED <<config, procvars, runvars, genvars, call, ret>>

\* step 4 of analyze_single
MergeAnalysisData ==
  /\ enrich.pc = "merge"
  /\ enrich' =
       IF _merge_analysis_data_raises(enrich.pagespeed_data,
                                      enrich.security_data,
                                      enrich.gemini_data)
         THEN Excepted(enrich, "TypeError")
       ELSE [enrich EXCEPT
               !.pc = "issues",
               !.lead = _merge_analysis_data(enrich.url, call.business,
                          enrich.pagespeed_data, enrich.security_data,
                          enrich.gemini_data)]
  /\ UNCHANGED <<config, procvars, runvars, genvars, call, ret>>

\* the rest of analyze_single: the issues of the record, the save and the
\* return
ReturnAnalysis ==
  /\ enrich.pc = "issues"
  /\ \E sink \in SinkOutcomes(instances[_analyzer_instance].supabase) :
       enrich' =
         Upsert([enrich EXCEPT
                   !.pc = "returned",
                   !.success = "true",
                   !.lead.issues =
                     issues_for_ui(enrich.has_website,
                                   enrich.pagespeed_data,
                                   enrich.security_data,
                                   enrich.gemini_data)],
                sink)
  /\ UNCHANGED <<config, procvars, runvars, genvars, call, ret>>

EnrichInit ==
  /\ target_results = 1
  /\ max_scan_limit = MaxScanLimit
  /\ filters = FiltersAny
  /\ stream_callback = FALSE
  /\ pc = "idle"
  /\ Started
  /\ environ = EnvNames
  /\ store_reachable \in BOOLEAN
  /\ _analyzer_instance = 1
  /\ instances = <<[rapidapi_key |-> TRUE, supabase |-> store_reachable]>>
  /\ threads = [t \in Threads |-> NoThread]
  /\ call \in [fn : {"analyze_business"}, business : EnrichCandidates,
               gemini_api_key : BOOLEAN, google_cloud_api_key : BOOLEAN]
  /\ ret = NoReturn
  /\ enrich = NoEnrich

EnrichNext ==
  \/ AnalyzeBusiness
  \/ SaveLeadToDatabase
  \/ FetchPagespeedData
  \/ FetchWebsiteForSecurityCheck
  \/ AnalyzeWithGemini
  \/ MergeAnalysisData
  \/ ReturnAnalysis

EnrichSpec == EnrichInit /\ [][EnrichNext]_vars

(***************************************************************************)
(* The analyzer of the process: request threads call get_analyzer, which   *)
(* constructs the DeepAnalyzer on the first call, and run a search on the  *)
(* instance they get.                                                      *)
(***************************************************************************)
\* a request arrives: its handler, or the analyzer thread of a streaming
\* request, is about to call get_analyzer
StartRequest(t) ==
  /\ threads[t].pc \in {"idle", "done", "error"}
  /\ threads' = [threads EXCEPT ![t] = [NoThread EXCEPT !.pc = "check"]]
  /\ UNCHANGED <<config, runvars, genvars, fnvars>>
  /\ UNCHANGED <<environ, store_reachable, _analyzer_instance, instances>>

\* if _analyzer_instance is None
TestInstance(t, instance) == IF instance = 0 THEN "construct" ELSE "return"

GetAnalyzerTest(t) ==
  /\ threads[t].pc = "check"
  /\ threads' =
       [threads EXCEPT ![t].pc = TestInstance(t, _analyzer_instance)]
  /\ UNCHANGED <<config, runvars, genvars, fnvars>>
  /\ UNCHANGED <<environ, store_reachable, _analyzer_instance, instances>>

\* DeepAnalyzer.__init__ raises ValueError without SUPABASE_URL or without
\* a store key
ConstructorRaises(env, reachable) ==
  "SUPABASE_URL" \notin env \/ "SUPABASE_KEY" \notin env

\* _analyzer_instance = DeepAnalyzer(): the object keeps the key of the
\* listing source as it is, and None as store when the client cannot be
\* created or its test query fails
Construct(t) ==
  /\ threads[t].pc = "construct"
  /\ IF ConstructorRaises(environ, store_reachable)
       THEN /\ threads' = [threads EXCEPT ![t].pc = "error",
                                          ![t].status = "ValueError"]
            /\ UNCHANGED <<_analyzer_instance, instances>>
     ELSE /\ instances' =
               Append(instances,
                      [rapidapi_key |-> "RAPIDAPI_KEY" \in environ,
                       supabase |-> store_reachable])
          /\ _analyzer_instance' = Len(instances) + 1
          /\ threads' = [threads EXCEPT ![t].pc = "return"]
  /\ UNCHANGED <<config, runvars, genvars, fnvars>>
  /\ UNCHANGED <<environ, store_reachable>>

\* return _analyzer_instance
ReturnInstance(t) ==
  /\ threads[t].pc = "return"
  /\ threads' = [threads EXCEPT ![t].pc = "run",
                                ![t].analyzer = _analyzer_instance]
  /\ UNCHANGED <<config, runvars, genvars, fnvars>>
  /\ UNCHANGED <<environ, store_reachable, _analyzer_instance, instances>>

\* process_bulk_search on the instance: a request without key is refused by
\* the listing source, so the fetch raises and the run ends partial; the
\* leads of a page are saved only when the instance has a store
RunSearch(t) ==
  /\ threads[t].pc = "run"
  /\ LET self == instances[threads[t].analyzer]
     IN \E fetch \in IF self.rapidapi_key THEN {"page", "error"}
                     ELSE {"error"} :
          threads' =
            [threads EXCEPT
               ![t].pc = "done",
               ![t].status = IF fetch = "page" THEN "completed"
                             ELSE "partial",
               ![t].saved = fetch = "page" /\ self.supabase]
  /\ UNCHANGED <<config, runvars, genvars, fnvars>>
  /\ UNCHANGED <<environ, store_reachable, _analyzer_instance, instances>>

\* a process that has not served a request: any environment, no analyzer
ProcInit ==
  /\ target_results = 1
  /\ max_scan_limit = MaxScanLimit
  /\ filters = FiltersAny
  /\ stream_callback = FALSE
  /\ pc = "idle"
  /\ Started
  /\ call = NoCall
  /\ ret = NoReturn
  /\ enrich = NoEnrich
  /\ environ \in SUBSET EnvNames
  /\ store_reachable \in BOOLEAN
  /\ _analyzer_instance = 0
  /\ instances = <<>>
  /\ threads = [t \in Threads |-> NoThread]

ProcNext ==
  \/ \E t \in Threads : StartRequest(t)
  \/ \E t \in Threads : GetAnalyzerTest(t)
  \/ \E t \in Threads : Construct(t)
  \/ \E t \in Threads : ReturnInstance(t)
  \/ \E t \in Threads : RunSearch(t)

ProcSpec == ProcInit /\ [][ProcNext]_vars

(***************************************************************************)
(* Properties of the bulk search.                                          *)
(***************************************************************************)
LeadIds == {found_leads[k].id : k \in DOMAIN found_leads}
LeadEvents == SelectSeq(event_queue, LAMBDA e : e.type = "lead")
Failed == {i \in DOMAIN futures :
             futures[i].state = "finished" /\ ~futures[i].success}
\* position of future i among the finished futures not yet yielded
PosFinished(i) ==
  CHOOSE k \in DOMAIN finished_order : finished_order[k] = i

\* C1: once a page without pagination token has been processed, the run
\* makes no further request to the listing source, whatever the outcome of
\* the filters on that page.  (A second or later request is only made
\* after a non-empty page was processed, and next_page_token is the token
\* of that page.)
C1_NoFetchAfterLastPage ==
  ~(pc = "fetch" /\ page_count > 1 /\ next_page_token = NoToken)

\* C2: while a page is filtered the candidates collected plus the leads
\* accumulated never exceed the target, and the accumulator and the
\* returned list never hold more than target_results leads.
C2_NeverOverCollect ==
  /\ pc \in {"filter", "filtered"} =>
       Len(passed_businesses) + Len(found_leads) <= target_results
  /\ Len(found_leads) <= target_results
  /\ Len(result.leads) <= target_results

\* collection stopped at the target with candidates of the page left
C2_StoppedCollecting ==
  /\ pc = "filtered"
  /\ Len(passed_businesses) + Len(found_leads) = target_results
  /\ idx <= Len(businesses)

\* C3: the returned status is "completed" exactly when total_found >=
\* target_results and "partial" otherwise, and total_found is the length of
\* the returned leads list.
C3_StatusIffTarget ==
  pc = "done" =>
    /\ result.status \in {"completed", "partial"}
    /\ result.status = "completed" <=> result.total_found >= target_results
    /\ result.total_found = Len(result.leads)

\* a run returned "completed" with exactly target_results leads
C3_ReturnedCompleted ==
  /\ pc = "done"
  /\ result.status = "completed"
  /\ result.total_found = target_results

\* C4: process_bulk_search never raises to its caller, for any listing
\* source outcome, any candidate data and any enrichment outcome.
C4_NeverRaises == pc # "raised"

\* C5: when an enrichment task of a batch fails, the other tasks of the
\* batch still run to their end and every successful result is appended;
\* the failed candidate is not among the leads, the run goes on, and the
\* failed candidate stays counted in scanned_count.
C5_FailureIsolated ==
  pc = "shutdown" =>
    /\ \A i \in DOMAIN futures :
         /\ futures[i].state = "finished"
         /\ futures[i].success <=> <<page_count, i>> \in LeadIds
    /\ scanned_count >= Len(found_leads) + Cardinality(Failed)

\* a batch ended with a failed task and a successful one
C5_MixedBatch ==
  /\ pc = "shutdown"
  /\ \E i, j \in DOMAIN futures :
       /\ futures[i].state = "finished" /\ ~futures[i].success
       /\ futures[j].state = "finished" /\ futures[j].success
       /\ i < j

NeverOverDispatched ==
  Len(futures) + Len(found_leads) - Cardinality(
    {i \in DOMAIN futures : \E k \in DOMAIN found_leads :
       found_leads[k].id = <<page_count, i>>}) <= target_results

\* C8: at every instant at most 3 enrichment tasks are executing, however
\* many candidates were collected; a further task starts only after one of
\* the running ones has finished.
C8_AtMostThreeRunning ==
  /\ Cardinality(Running) <= 3
  /\ Cardinality(Running) = 3 =>
       ~ENABLED TaskStart

\* three tasks are running while a fourth is queued
C8_FourthWaits ==
  /\ Cardinality(Running) = 3
  /\ \E i \in DOMAIN futures : futures[i].state = "queued"

\* C9 (as stated): of two successful tasks of a batch, the one that
\* finished first is appended first: when a lead is appended no other
\* successful task that finished before it is still to be appended.
C9_CompletionOrder ==
  [][Len(found_leads') > Len(found_leads) =>
       LET i == found_leads'[Len(found_leads')].id[2]
       IN \A k \in DOMAIN finished_order :
            k < PosFinished(i) => ~futures[finished_order[k]].success]_vars

\* C9 (amended): leads are appended in the order as_completed yields their
\* futures: a task that finished after as_completed was entered is
\* appended only when no task that finished before it is still to be
\* yielded; the tasks already finished when as_completed was entered come
\* first, in any order.
C9_YieldOrder ==
  [][Len(found_leads') > Len(found_leads) =>
       LET i == found_leads'[Len(found_leads')].id[2]
       IN \/ i \in ac_finished
          \/ /\ ac_finished = {}
             /\ PosFinished(i) = 1]_vars

\* leads were appended and two successful tasks that finished since
\* as_completed was entered wait in the reverse of their submission order
C9_ReversedCompletion ==
  /\ pc = "collect"
  /\ ac_finished = {}
  /\ Len(found_leads) >= 1
  /\ Len(waiter) >= 2
  /\ waiter[1] > waiter[2]
  /\ futures[waiter[1]].success /\ futures[waiter[2]].success

\* C10: with a stream callback attached the lead events are the leads of
\* the accumulator, one event per lead in the same order, the k-th event
\* carrying progress.completed = k, and the 'complete' event reports as
\* totalFound the number of lead events.
C10_EventsMirrorLeads ==
  stream_callback =>
    /\ Len(LeadEvents) = Len(found_leads)
    /\ \A k \in DOMAIN LeadEvents :
         /\ LeadEvents[k].data.id = found_leads[k].id
         /\ LeadEvents[k].data.googleMapsPlaceId = found_leads[k].place_id
         /\ LeadEvents[k].completed = k
    /\ \A k \in DOMAIN event_queue :
         event_queue[k].type = "complete" =>
           event_queue[k].totalFound = Len(LeadEvents)

\* a streamed run returned several leads and its 'complete' event is queued
C10_StreamCompleted ==
  /\ stream_callback
  /\ pc = "done"
  /\ Len(found_leads) >= 2
  /\ event_queue # <<>>
  /\ event_queue[Len(event_queue)].type = "complete"

StreamLeads == SelectSeq(stream, LAMBDA e : e.type = "lead")
\* the analyzer thread has ended: process_bulk_search returned or raised
RunEnded == pc \in {"done", "raised"}

\* C11: the stream is one 'status' event, then 'lead' events, then exactly
\* one terminal event ('complete' or 'error') after which the stream is
\* closed and nothing more is yielded; the queue holds no event behind its
\* terminal event, and when the stream closes every 'lead' event the run
\* queued has been delivered, in the order it was queued.
C11_StreamShape ==
  /\ gen = "start" <=> stream = <<>>
  /\ \A k \in DOMAIN stream :
       /\ k = 1 <=> stream[k].type = "status"
       /\ 1 < k /\ k < Len(stream) => stream[k].type = "lead"
       /\ k > 1 => stream[k] = event_queue[k - 1]
  /\ gen = "closed" <=>
       (stream # <<>> /\ stream[Len(stream)].type \in {"complete", "error"})
  /\ \A k \in DOMAIN event_queue :
       event_queue[k].type \in {"complete", "error"} => k = Len(event_queue)
  /\ gen = "closed" => StreamLeads = LeadEvents /\ n_got = Len(event_queue)

\* a stream closed by 'complete' after it delivered several leads
C11_ClosedAfterLeads ==
  /\ gen = "closed"
  /\ Len(stream) >= 4
  /\ stream[2].type = "lead" /\ stream[3].type = "lead"
  /\ stream[Len(stream)].type = "complete"

\* C12: a keep-alive is emitted only while no event waits in the queue; it
\* leaves the stream open and counts as no event (the events delivered, the
\* number taken from the queue and completed_count stay as they are), and
\* while the stream waits on an empty queue a keep-alive can be emitted.
\* Once the analyzer run has returned or raised, the stream eventually
\* delivers the terminal event and closes.
C12_KeepAliveThenClose ==
  /\ [][last_chunk' # last_chunk /\ last_chunk' = "keep-alive" =>
          /\ n_got = Len(event_queue)
          /\ gen' = "loop"
          /\ stream' = stream
          /\ n_got' = n_got
          /\ completed_count' = completed_count]_vars
  /\ [](gen = "loop" /\ n_got = Len(event_queue) => ENABLED KeepAlive)
  /\ [](RunEnded => <>(/\ gen = "closed"
                       /\ stream[Len(stream)].type \in {"complete", "error"}))

\* a keep-alive was emitted while a batch was being analysed, after a lead
\* had been delivered, and the stream is open
C12_KeepAliveMidRun ==
  /\ pc = "collect"
  /\ last_chunk = "keep-alive"
  /\ gen = "loop"
  /\ Len(stream) >= 2

\* the leads of the accumulator that task i of the current batch produced
AppendedOf(i) == {k \in DOMAIN found_leads : found_leads[k].id = <<page_count, i>>}

\* C13: appends to the accumulator and puts of lead events never overlap:
\* each is made by the one thread that runs the as_completed loop, one
\* lead per step, behind what is already there, also while several tasks
\* have finished and wait to be collected; when the batch ends every
\* successful task has been appended exactly once and no failed one.
C13_OneWriter ==
  /\ [][found_leads' # found_leads \/ LeadEvents' # LeadEvents =>
          /\ pc = "collect"
          /\ Len(found_leads') = Len(found_leads) + 1
          /\ SubSeq(found_leads', 1, Len(found_leads)) = found_leads
          /\ Len(LeadEvents') <= Len(LeadEvents) + 1
          /\ SubSeq(LeadEvents', 1, Len(LeadEvents)) = LeadEvents
          /\ futures' = futures]_vars
  /\ [](\A k, m \in DOMAIN found_leads :
          found_leads[k].id = found_leads[m].id => k = m)
  /\ [](pc = "shutdown" =>
          \A i \in DOMAIN futures :
            Cardinality(AppendedOf(i)) = IF futures[i].success THEN 1 ELSE 0)

\* a batch of three or more tasks ended, every task successful, appended
\* once and streamed once
C13_BurstCollected ==
  /\ pc = "shutdown"
  /\ stream_callback
  /\ Len(futures) >= 3
  /\ \A i \in DOMAIN futures : futures[i].success
  /\ Len(found_leads) = Len(futures)
  /\ Len(LeadEvents) = Len(futures)

\* C14: every page is requested once and no request is repeated; a timeout
\* gives an empty page without token and any other failure is caught by
\* the loop; after either the run makes no further request and returns,
\* the leads and the counters of the run being what they were before the
\* failed request.
C14_SingleAttempt ==
  /\ [][pc' = "fetch" =>
          (pc # "fetch" /\ page_count' = page_count + 1)]_vars
  /\ [][last_fetch' # last_fetch /\ last_fetch' \in {"timeout", "error"} =>
          /\ pc = "fetch" /\ pc' = "return"
          /\ found_leads' = found_leads
          /\ scanned_count' = scanned_count]_vars
  /\ [](last_fetch \in {"timeout", "error"} =>
          /\ pc \in {"return", "done"}
          /\ last_fetch = "timeout" =>
               (businesses = <<>> /\ next_page_token = NoToken)
          /\ pc = "done" =>
               /\ result.leads = found_leads
               /\ result.total_scanned = scanned_count
               /\ result.pages_fetched = page_count)

\* the second request of a run timed out and the run returned what it had
C14_TimedOutOnSecondPage ==
  /\ pc = "done"
  /\ last_fetch = "timeout"
  /\ page_count = 2
  /\ result.total_scanned >= 1
  /\ result.status = "partial"

\* C15: scanned_count grows by the size of every non-empty page fetched and
\* by nothing else, whether or not all its candidates are examined, and
\* total_scanned is its final value; total_found <= total_scanned; a run
\* that ends "completed" has total_found = target_results,
\* total_scanned >= target_results and pages_fetched >= 1.
C15_ScannedIsSumOfPages ==
  /\ [][scanned_count' = scanned_count +
          (IF pc = "fetch" /\ pc' = "filter" THEN Len(businesses')
           ELSE 0)]_vars
  /\ [](pc = "filter" => Len(businesses) >= 1)
  /\ [](Len(found_leads) <= scanned_count)
  /\ [](pc = "done" =>
          /\ result.total_scanned = scanned_count
          /\ result.total_found <= result.total_scanned
          /\ result.status = "completed" =>
               /\ result.total_found = target_results
               /\ result.total_scanned >= target_results
               /\ result.pages_fetched >= 1)

\* a run ended "completed" having scanned more candidates than it needed
C15_CompletedWithSurplus ==
  /\ pc = "done"
  /\ result.status = "completed"
  /\ result.total_found = target_results
  /\ result.total_scanned > result.total_found
  /\ result.pages_fetched = 1

(***************************************************************************)
(* Properties of the pure functions.                                       *)
(***************************************************************************)
\* the attribute has no value: the key is missing or null
Absent(v) == v.k \in {"missing", "none"}
PassesReturned == call.fn = "_passes_filters" /\ ret.state = "returned"

\* C16: a candidate is never rejected by the check on an attribute (rating,
\* review count, price tier, photo count, operating status) it does not
\* carry.
C16_AbsentNeverRejects ==
  call.fn = "_passes_filters" /\ ret.state # "pending" =>
    LET b == call.business
    IN /\ Absent(b.rating) => ret.str # "rating"
       /\ Absent(b.review_count) => ret.str # "reviews"
       /\ Absent(b.price_level) => ret.str # "price"
       /\ Absent(b.photo_count) => ret.str # "photos"
       /\ Absent(b.business_status) => ret.str # "status"

\* the seven checks on candidate b under criteria f, a check on an absent
\* attribute holding
SevenChecks(b, f) ==
  /\ \/ f.maxRating \in {AnyValue, PyNone} \/ Absent(b.rating)
     \/ ~(b.rating.n > float(f.maxRating))
  /\ \/ f.minReviews \in {PyNone, Num(0)} \/ Absent(b.review_count)
     \/ ~(b.review_count.n < f.minReviews.n)
  /\ \/ f.priceLevel = {} \/ "any" \in f.priceLevel \/ Absent(b.price_level)
     \/ PriceStr(b) \in f.priceLevel
  /\ f.mustHavePhone => ~Absent(b.phone_number)
  /\ \/ f.maxPhotos \in {AnyValue, PyNone} \/ Absent(b.photo_count)
     \/ ~(b.photo_count.n > int(f.maxPhotos))
  /\ f.websiteStatus = Str("has-website") => Truthy(b.website)
  /\ f.websiteStatus = Str("no-website") => ~Truthy(b.website)
  /\ ~(~Absent(b.business_status) /\ b.business_status # Str("OPEN"))

\* C17: _passes_filters returns, and returns True exactly when the seven
\* checks hold; a value equal to its threshold passes and a wildcard
\* bypasses its check.
C17_PassesIffSevenChecks ==
  call.fn = "_passes_filters" /\ ret.state # "pending" =>
    /\ ret.state = "returned"
    /\ ret.bool <=> SevenChecks(call.business, call.filters)

\* on candidates that carry a review count and have no null price tier or
\* photo count, _passes_filters returns and agrees with the seven checks
SevenChecksOnCountedCandidates ==
  /\ call.fn = "_passes_filters" /\ ret.state # "pending"
  /\ call.business.review_count.k = "num"
  /\ call.business.price_level.k # "none"
  /\ call.business.photo_count.k # "none"
  => /\ ret.state = "returned"
     /\ ret.bool <=> SevenChecks(call.business, call.filters)

\* the tighter values of each criterion: a lower ceiling, a higher floor,
\* a concrete value in place of a wildcard
LowerRating(v) ==
  CASE v \in {AnyValue, PyNone} -> {Str("4.0"), Str("3.5")}
    [] v = Str("4.0") -> {Str("3.5")}
    [] OTHER -> {}
HigherFloor(v) ==
  CASE v \in {PyNone, Num(0)} -> {Num(10), Num(11)}
    [] v = Num(10) -> {Num(11)}
    [] OTHER -> {}
LowerPhotos(v) ==
  CASE v = AnyValue -> {Str("100"), Str("50")}
    [] v = Str("100") -> {Str("50")}
    [] OTHER -> {}
PriceWildcard(p) == p = {} \/ "any" \in p

\* the settings that tighten one criterion of f other than the price tiers
TightenedOne(f) ==
  {[f EXCEPT !.maxRating = v] : v \in LowerRating(f.maxRating)}
  \cup {[f EXCEPT !.minReviews = v] : v \in HigherFloor(f.minReviews)}
  \cup {[f EXCEPT !.maxPhotos = v] : v \in LowerPhotos(f.maxPhotos)}
  \cup {[f EXCEPT !.mustHavePhone = v] : v \in
          IF f.mustHavePhone THEN {} ELSE {TRUE}}
  \cup {[f EXCEPT !.websiteStatus = v] : v \in
          IF f.websiteStatus = AnyValue
            THEN {Str("has-website"), Str("no-website")} ELSE {}}

PriceSets == {{}, {"any"}, {"1", "2"}, {"1"}, {"2"}}

\* every smaller set of allowed price tiers, the empty one included, and
\* every concrete set in place of a wildcard
PriceShrunk(f) ==
  {[f EXCEPT !.priceLevel = q] : q \in
     {q \in PriceSets :
        \/ q \subseteq f.priceLevel /\ q # f.priceLevel
        \/ PriceWildcard(f.priceLevel) /\ ~PriceWildcard(q)}}

\* the same without the empty list, which is "no price filter"
PriceShrunkNonEmpty(f) ==
  {g \in PriceShrunk(f) :
     \/ PriceWildcard(f.priceLevel) /\ ~PriceWildcard(g.priceLevel)
     \/ ~PriceWildcard(f.priceLevel) /\ g.priceLevel # {}}

\* C18 (as stated): if _passes_filters rejects a candidate, it does not
\* accept it under any setting obtained by tightening one criterion,
\* shrinking the set of allowed price tiers included.
C18_Monotonic ==
  PassesReturned /\ ~ret.bool =>
    \A g \in TightenedOne(call.filters) \cup PriceShrunk(call.filters) :
      ~_passes_filters(call.business, g)

\* C18 (amended): if _passes_filters rejects a candidate, it does not
\* accept it under any setting obtained by tightening one criterion, the
\* set of allowed price tiers being shrunk to a non-empty set (an empty
\* list is the wildcard: no price filter).
C18_MonotonicNonEmptyPrice ==
  PassesReturned /\ ~ret.bool =>
    \A g \in TightenedOne(call.filters) \cup PriceShrunkNonEmpty(call.filters) :
      ~_passes_filters(call.business, g)

\* a candidate was accepted that each kind of tightening would reject
C18_PassTurnsIntoFail ==
  /\ PassesReturned /\ ret.bool
  /\ \E g \in TightenedOne(call.filters) :
       ~_passes_filters(call.business, g)
  /\ \E g \in PriceShrunkNonEmpty(call.filters) :
       /\ ~PriceWildcard(call.filters.priceLevel)
       /\ ~_passes_filters(call.business, g)

\* the score of the claim: 100 less the four deductions, within 0..100;
\* counts that are absent read as 0
ClaimedScore(b) ==
  LET count(v) == IF Absent(v) THEN 0 ELSE v.n
      d1 == IF ~Absent(b.rating) /\ b.rating.n < 40 THEN 20 ELSE 0
      d2 == IF count(b.photo_count) < 10 THEN 15 ELSE 0
      d3 == IF ~Truthy(b.website) THEN 30 ELSE 0
      d4 == IF count(b.review_count) < 20 THEN 10 ELSE 0
      raw == 100 - d1 - d2 - d3 - d4
  IN IF raw < 0 THEN 0 ELSE IF raw > 100 THEN 100 ELSE raw

\* C19: _calculate_initial_score returns 100 minus 20 for a rating present
\* and below 4.0, minus 15 for a photo count below 10, minus 30 for no
\* website, minus 10 for a review count below 20, within 0..100.
C19_ScoreIsHundredLessDeductions ==
  call.fn = "_calculate_initial_score" /\ ret.state # "pending" =>
    /\ ret.state = "returned"
    /\ ret.int = ClaimedScore(call.business)

\* whatever _calculate_initial_score returns lies within 0..100
ScoreInRange ==
  call.fn = "_calculate_initial_score" /\ ret.state = "returned" =>
    ret.int \in 0..100

\* C20: _calculate_lead_strength returns "strong" exactly when the score
\* is below 50 and the website is given, otherwise "medium" exactly when
\* the score is below 70, otherwise "weak", for every score of 0..100.
C20_StrengthClasses ==
  call.fn = "_calculate_lead_strength" /\ ret.state = "returned" =>
    LET hasWebsite == ~Absent(call.website) /\ call.website # Str("")
    IN /\ ret.str = "strong" <=> (call.total_score < 50 /\ hasWebsite)
       /\ ret.str = "medium" <=>
            (~(call.total_score < 50 /\ hasWebsite) /\ call.total_score < 70)
       /\ ret.str = "weak" <=> call.total_score >= 70
       /\ ret.str \in {"strong", "medium", "weak"}

\* a candidate with a website and a score of exactly 50 was classified
\* "medium"
C20_BoundaryFifty ==
  /\ call.fn = "_calculate_lead_strength"
  /\ ret.state = "returned"
  /\ call.total_score = 50
  /\ Truthy(call.website)
  /\ ret.str = "medium"

(***************************************************************************)
(* Properties of the enrichment of one business.                           *)
(***************************************************************************)
FallbackReturned ==
  call.fn = "_get_fallback_analysis" /\ ret.state = "returned"

\* the lead quality of the claim: a rating that is present, 0 included, is
\* compared with 4.0
ClaimedQuality(url, map_data) ==
  IF ~Truthy(url) THEN "High"
  ELSE IF ~Absent(map_data.rating) /\ map_data.rating.n < 40 THEN "High"
  ELSE "Medium"

\* C28: _get_fallback_analysis returns lead quality "High" for a business
\* without website, "High" for one with a website and a rating below 4.0,
\* "Medium" otherwise, for every rating from 0 to 5 and for an absent
\* rating; the five fallback sub-scores are 50.
C28_FallbackQuality ==
  call.fn = "_get_fallback_analysis" =>
    /\ ret.state # "raised"
    /\ FallbackReturned =>
         /\ Lookup(ret.data, <<"lead_quality">>, PyNone)
              = Str(ClaimedQuality(call.url, call.map_data))
         /\ \A f \in {"ui", "ux", "seo", "content", "total"} :
              Lookup(ret.data, <<"scores", f>>, PyNone) = Num(50)

\* the part of C28 that holds: the claimed quality for every rating but 0,
\* and the five sub-scores
FallbackQualityButZero ==
  FallbackReturned =>
    /\ call.map_data.rating # Num(0) =>
         Lookup(ret.data, <<"lead_quality">>, PyNone)
           = Str(ClaimedQuality(call.url, call.map_data))
    /\ \A f \in {"ui", "ux", "seo", "content", "total"} :
         Lookup(ret.data, <<"scores", f>>, PyNone) = Num(50)

ParseReturned ==
  call.fn = "_parse_gemini_response" /\ ret.state = "returned"

\* what is between the fences of a fenced text
Fenced(toks) ==
  /\ Len(toks) >= 3
  /\ toks[1].k = "fence"
  /\ toks[Len(toks)].k = "fence"
Inner(toks) == SubSeq(toks, 2, Len(toks) - 1)

\* an object that has the required fields, the nested ones as mappings
Accepted(data) ==
  /\ data.k = "dict"
  /\ \A f \in RequiredFields : Has(data, <<f>>)
  /\ \A f \in {"scores", "report_card", "email_pitch"} :
       Lookup(data, <<f>>, PyNone).k = "dict"

\* a fenced text whose object lacks exactly its last closing brace
FencedTruncatedByOne(toks) ==
  /\ Fenced(toks)
  /\ json_loads(Inner(toks)) = NoneData
  /\ Accepted(json_loads(Append(Inner(toks), RB)))

\* C29: for a response in markdown fences whose object lacks exactly one
\* closing brace, _parse_gemini_response returns the object that
\* json.loads reads from the text without the fences and with the brace
\* appended.
C29_TruncatedRepaired ==
  (ParseReturned /\ FencedTruncatedByOne(call.response_text)) =>
    ret.data = json_loads(Append(Inner(call.response_text), RB))

\* the part of C29 that holds: the same, for objects without a brace
\* inside a string
NoBraceInString(toks) ==
  \A i \in DOMAIN toks :
    toks[i].k = "str" => Opens(toks[i]) = Closes(toks[i])
TruncatedRepairedWhenBalanced ==
  (/\ ParseReturned
   /\ FencedTruncatedByOne(call.response_text)
   /\ NoBraceInString(call.response_text)) =>
    ret.data = json_loads(Append(Inner(call.response_text), RB))

\* analyze_business has returned; it has returned a lead record; the
\* record is the one analyze_single merged
EnrichReturned == call.fn = "analyze_business" /\ enrich.pc = "returned"
EnrichSucceeded == EnrichReturned /\ enrich.success = "true"
Merged == EnrichSucceeded /\ "gemini" \in enrich.probes
\* the business has no website: the key is missing, null or empty
NoWebsite(business) == ~Truthy(Get(business.website, PyNone))

\* the record of the shortcut: a placeholder website that holds the
\* listing id when there is one, score and strength of the scorer
ShortcutLead(business, lead) ==
  /\ Truthy(PlaceId(business)) =>
       lead.website = Str("no-website-" \o PlaceId(business).s)
  /\ lead.website \notin {PyNone, Str("")}
  /\ lead.total_score = Num(_calculate_initial_score(business))
  /\ lead.lead_strength =
       Str(_calculate_lead_strength(_calculate_initial_score(business),
                                    Get(business.website, Str(""))))

\* C21: for a business without website analyze_business calls none of the
\* performance, security and AI probes and returns a lead record whose
\* website is a placeholder that holds the listing id and whose total
\* score and lead strength are those of _calculate_initial_score and
\* _calculate_lead_strength.
C21_ShortcutYieldsLead ==
  (EnrichReturned /\ NoWebsite(call.business)) =>
    /\ enrich.probes = {}
    /\ enrich.success = "true"
    /\ ShortcutLead(call.business, enrich.lead)

\* the part of C21 that holds: no probe is called, and the record, when
\* one is returned, is the claimed one
ShortcutLeadWhenReturned ==
  (EnrichReturned /\ NoWebsite(call.business)) =>
    /\ enrich.probes = {}
    /\ enrich.success = "true" => ShortcutLead(call.business, enrich.lead)

Percent(v) == v.k = "num" /\ v.n \in 0..100
NullOrPercent(v) == v.k \in {"none", "missing"} \/ Percent(v)

\* C22: every lead record analyze_business returns has ui, seo, tech,
\* total and speed scores from 0 to 100 and performance and security
\* scores that are null or from 0 to 100, whatever the generative service
\* and the performance service answered.
C22_ScoresInRange ==
  EnrichSucceeded =>
    /\ Percent(enrich.lead.ui_score)
    /\ Percent(enrich.lead.seo_score)
    /\ Percent(enrich.lead.tech_score)
    /\ Percent(enrich.lead.total_score)
    /\ Percent(enrich.lead.google_speed_score)
    /\ NullOrPercent(enrich.lead.performance_score)
    /\ NullOrPercent(enrich.lead.security_score)

\* the part of C22 that holds: the scores of the two probes
ProbeScoresInRange ==
  EnrichSucceeded =>
    /\ NullOrPercent(enrich.lead.performance_score)
    /\ NullOrPercent(enrich.lead.security_score)

\* the issues of gemini_data
AiIssues ==
  LET issues_found == Lookup(enrich.gemini_data,
                             <<"report_card", "issues_found">>, List(0))
  IN IF issues_found.k = "list" THEN Items(issues_found.s) ELSE <<>>

\* C23: the issues of a merged lead record begin with at most the first
\* two issues of the security probe, in the order of the probe, and issues
\* of the AI probe follow; no third or later security issue is included.
C23_TwoSecurityIssues ==
  Merged =>
    LET sec == enrich.security_data.security_issues
        n == IF Len(sec) < 2 THEN Len(sec) ELSE 2
        issues == enrich.lead.issues
    IN /\ Len(issues) >= n
       /\ SubSeq(issues, 1, n) = SubSeq(sec, 1, n)
       /\ \A i \in DOMAIN issues : i > n => issues[i] \in Range(AiIssues)

\* the positions of issues_for_ui, before the de-duplication, that hold
\* the first occurrence of a non-empty issue
FirstOccurrences(collected) ==
  {i \in DOMAIN collected :
     collected[i] # "" /\ \A j \in 1..(i - 1) : collected[j] # collected[i]}

EnrichCollected ==
  IssuesCollected(enrich.has_website, enrich.pagespeed_data,
                  enrich.security_data, enrich.gemini_data)

\* C24: the issues of every lead record hold no string twice, compared
\* case-sensitively, keep the order of the first occurrences and are at
\* most 10: the k-th issue is the k-th first occurrence.
C24_IssuesDeduped ==
  EnrichSucceeded =>
    LET issues == enrich.lead.issues
        F == FirstOccurrences(EnrichCollected)
    IN /\ Len(issues) <= 10
       /\ \A i, j \in DOMAIN issues : i # j => issues[i] # issues[j]
       /\ Merged =>
            /\ Len(issues) = IF Cardinality(F) < 10 THEN Cardinality(F)
                             ELSE 10
            /\ \A k \in DOMAIN issues :
                 \E i \in F :
                   /\ EnrichCollected[i] = issues[k]
                   /\ Cardinality({j \in F : j < i}) = k - 1

\* witness of C24: a record with 10 issues out of more, a repeated issue
\* dropped, two issues that differ in case only both kept
C24_RepeatedAndCapped ==
  /\ Merged
  /\ Len(enrich.lead.issues) = 10
  /\ Cardinality(FirstOccurrences(EnrichCollected)) > 10
  /\ Len(EnrichCollected) > Cardinality(FirstOccurrences(EnrichCollected))
  /\ {"Outdated design", "outdated design"} \subseteq Range(enrich.lead.issues)

\* C25: the speed score of a merged record is the score of the performance
\* probe whenever the probe returned one, a 0 included, and max(0, total -
\* 20) when the probe returned none; then the performance score of the
\* record is null.
C25_SpeedScore ==
  Merged =>
    LET lead == enrich.lead
        total == lead.total_score.n
    IN IF enrich.pagespeed_data.k = "dict"
         THEN /\ lead.performance_score
                   = enrich.pagespeed_data.performance_score
              /\ lead.google_speed_score
                   = enrich.pagespeed_data.performance_score
       ELSE /\ lead.performance_score = PyNone
            /\ lead.google_speed_score
                 = Num(IF total - 20 > 0 THEN total - 20 ELSE 0)

\* witness of C25: a performance score of 0 taken as the speed score of a
\* record whose total would give another one
C25_GenuineZero ==
  /\ Merged
  /\ enrich.pagespeed_data = PagespeedData(0)
  /\ enrich.lead.google_speed_score = Num(0)
  /\ enrich.lead.total_score.n > 20

\* the lead quality of gemini_data
Tier == Lookup(enrich.gemini_data, <<"lead_quality">>, PyNone)

\* C26: the lead strength of a merged record is the image of the lead
\* quality of the AI probe under High -> strong, Medium -> medium,
\* Low -> weak; the heuristic score has no part in it.
C26_StrengthFromTier ==
  Merged =>
    /\ Tier = Str("High") => enrich.lead.lead_strength = Str("strong")
    /\ Tier = Str("Medium") => enrich.lead.lead_strength = Str("medium")
    /\ Tier = Str("Low") => enrich.lead.lead_strength = Str("weak")

\* witness of C26: a record of medium strength whose total score of 25
\* _calculate_lead_strength would class as strong
C26_MediumDespiteScore ==
  /\ Merged
  /\ Tier = Str("Medium")
  /\ enrich.lead.total_score = Num(25)
  /\ enrich.lead.lead_strength = Str("medium")
  /\ _calculate_lead_strength(25, enrich.url) = "strong"

\* _analyze_with_gemini has raised: analyze_business has failed in step 3
GeminiRaised ==
  /\ EnrichReturned
  /\ enrich.success = "false"
  /\ "gemini" \in enrich.probes
  /\ enrich.gemini_data = NoneData

\* a failure of the AI probe: no credential, an exception of the service,
\* or a text that gives no accepted object
GeminiFailed ==
  \/ ~call.gemini_api_key
  \/ enrich.response.k = "Exception"
  \/ ~Accepted(json_loads(Cleaned(enrich.response.text)))

\* C27: _analyze_with_gemini never raises; without credential, on an
\* exception of the service, on a text that cannot be parsed, on a missing
\* required key and on a scores, report_card or email_pitch that is no
\* mapping it returns the fallback analysis.
C27_GeminiNeverRaises ==
  /\ ~GeminiRaised
  /\ (enrich.gemini_data.k = "dict" /\ GeminiFailed) =>
       enrich.gemini_data = _get_fallback_analysis(enrich.url,
                                                   call.business)

\* the part of C27 that holds: the fallback on every failure listed
FallbackOnFailure ==
  (enrich.gemini_data.k = "dict" /\ GeminiFailed) =>
    enrich.gemini_data = _get_fallback_analysis(enrich.url, call.business)

\* the security probe has raised: analyze_business has failed in step 2
SecurityRaised ==
  /\ EnrichReturned
  /\ enrich.success = "false"
  /\ "security" \in enrich.probes
  /\ "gemini" \notin enrich.probes

\* C30: neither probe raises into analyze_single: the performance probe
\* returns None on a timeout and on any other failure, the security probe
\* returns a null score with exactly one issue, and the AI probe and the
\* merge follow.
C30_ProbesNeverRaise ==
  /\ ~SecurityRaised
  /\ enrich.security_data.k = "dict" =>
       (enrich.security_data.security_score = PyNone =>
          Len(enrich.security_data.security_issues) = 1)
  /\ (EnrichReturned /\ "pagespeed" \in enrich.probes) =>
       "gemini" \in enrich.probes

\* the part of C30 that holds: a failed security audit has a null score
\* and one issue, and after the performance probe the security probe is
\* called
ProbeResults ==
  /\ enrich.security_data.k = "dict" =>
       (enrich.security_data.security_score = PyNone =>
          Len(enrich.security_data.security_issues) = 1)
  /\ (EnrichReturned /\ "pagespeed" \in enrich.probes) =>
       "security" \in enrich.probes

(***************************************************************************)
(* Properties of the security audit.                                       *)
(***************************************************************************)
SecurityReturned ==
  call.fn = "_calculate_security_score" /\ ret.state = "returned"

\* the response carries the header, as the server sent it, and with one
\* of the values
Sent(h, name) == \E x \in h : x.name = name
SentAs(h, name, values) == \E x \in h : x.name = name /\ x.value \in values

Excellent ==
  "Excellent security configuration - All recommended headers present"

\* the penalties of the claim in their order: whether one applies, its
\* amount and its issue
ClaimedPenalties(h) ==
  <<[applies |-> ~Sent(h, "Strict-Transport-Security"), amount |-> 20,
     issue |-> "Missing HSTS Header - Vulnerable to SSL Stripping Attacks"],
    [applies |-> /\ ~Sent(h, "X-Frame-Options")
                 /\ ~SentAs(h, "Content-Security-Policy",
                            {"Frame-Ancestors 'none'"}),
     amount |-> 20,
     issue |-> "Missing Clickjacking Protection - No X-Frame-Options or CSP frame-ancestors"],
    [applies |-> ~Sent(h, "X-Content-Type-Options"), amount |-> 10,
     issue |-> "Missing X-Content-Type-Options - Vulnerable to MIME Sniffing Attacks"],
    [applies |-> SentAs(h, "X-Content-Type-Options", {"none"}),
     amount |-> 5,
     issue |-> "X-Content-Type-Options present but not set to 'nosniff'"],
    [applies |-> Sent(h, "X-Powered-By"), amount |-> 10,
     issue |-> "Information Disclosure: X-Powered-By header reveals 'PHP/8.1'"],
    [applies |-> SentAs(h, "Server", {"nginx/1.18.0"}), amount |-> 10,
     issue |-> "Information Disclosure: Server header reveals version 'nginx/1.18.0'"],
    [applies |-> ~Sent(h, "Content-Security-Policy"), amount |-> 10,
     issue |-> "Missing Content-Security-Policy - No protection against XSS and injection attacks"],
    [applies |-> ~Sent(h, "Referrer-Policy"), amount |-> 5,
     issue |-> "Missing Referrer-Policy - May leak sensitive information in URLs"],
    [applies |-> /\ ~Sent(h, "Permissions-Policy")
                 /\ ~Sent(h, "Feature-Policy"),
     amount |-> 5,
     issue |-> "Missing Permissions-Policy - No control over browser features"]>>

\* C31: for a response over https the security score is max(0, 100 - the
\* sum of the penalties that apply), the issues are one per penalty
\* applied, in the order of the checks, or the one positive message when
\* none applies, and the list is never empty.
C31_ScoreIsHundredLessPenalties ==
  (SecurityReturned /\ call.response.https) =>
    LET P == ClaimedPenalties(call.response.headers)
        applied == {i \in DOMAIN P : P[i].applies}
        amount(i) == IF P[i].applies THEN P[i].amount ELSE 0
        sum == amount(1) + amount(2) + amount(3) + amount(4) + amount(5)
               + amount(6) + amount(7) + amount(8) + amount(9)
        issues == ret.data.security_issues
    IN /\ ret.data.security_score = Num(IF 100 - sum > 0 THEN 100 - sum
                                        ELSE 0)
       /\ issues # <<>>
       /\ IF applied = {} THEN issues = <<Excellent>>
          ELSE /\ Len(issues) = Cardinality(applied)
               /\ \A i \in applied :
                    issues[Cardinality({j \in applied : j <= i})]
                      = P[i].issue

\* witness of C31: a response that draws every penalty that can apply at
\* once: 8 issues and a score of 10
C31_EveryPenalty ==
  /\ SecurityReturned
  /\ call.response.https
  /\ ret.data.security_score = Num(10)
  /\ Len(ret.data.security_issues) = 8

\* C32: for a response whose URL is not https the score is 0 and the
\* issues are the one critical issue, whatever the headers are.
C32_HttpScoresZero ==
  (SecurityReturned /\ ~call.response.https) =>
    /\ ret.data.security_score = Num(0)
    /\ ret.data.security_issues =
         <<"Critical: Website uses HTTP instead of HTTPS - All data is transmitted unencrypted">>

\* witness of C32: a response over http with every recommended header
C32_HttpWithGoodHeaders ==
  /\ SecurityReturned
  /\ ~call.response.https
  /\ call.response.headers = GoodHeaders
  /\ ret.data.security_score = Num(0)

\* the recommended headers are set: HSTS, a protection against
\* clickjacking, X-Content-Type-Options nosniff, a CSP, a referrer policy
\* and a permissions policy
RecommendedSet(h) ==
  /\ Sent(h, "Strict-Transport-Security")
  /\ \/ Sent(h, "X-Frame-Options")
     \/ SentAs(h, "Content-Security-Policy", {"Frame-Ancestors 'none'"})
  /\ SentAs(h, "X-Content-Type-Options", {"nosniff", "NoSniff"})
  /\ Sent(h, "Content-Security-Policy")
  /\ Sent(h, "Referrer-Policy")
  /\ Sent(h, "Permissions-Policy") \/ Sent(h, "Feature-Policy")

\* C33 as stated: a response over https with the recommended headers set
\* has score 100 and the one positive message, whatever other headers it
\* carries.
C33_RecommendedScoresHundred ==
  (/\ SecurityReturned
   /\ call.response.https
   /\ RecommendedSet(call.response.headers)) =>
    /\ ret.data.security_score = Num(100)
    /\ ret.data.security_issues = <<Excellent>>

\* C33, amended: a response over https with the recommended headers set,
\* without X-Powered-By header and without Server header that holds a
\* digit, has score 100 and the one positive message, whatever other
\* headers it carries.
C33_RecommendedAndNoDisclosure ==
  (/\ SecurityReturned
   /\ call.response.https
   /\ RecommendedSet(call.response.headers)
   /\ ~Sent(call.response.headers, "X-Powered-By")
   /\ ~SentAs(call.response.headers, "Server", {"nginx/1.18.0"})) =>
    /\ ret.data.security_score = Num(100)
    /\ ret.data.security_issues = <<Excellent>>

\* witness of C33: score 100 for a response that carries a Server header
\* without version and a Feature-Policy besides the recommended ones
C33_HundredWithOtherHeaders ==
  /\ SecurityReturned
  /\ call.response.https
  /\ RecommendedSet(call.response.headers)
  /\ SentAs(call.response.headers, "Server", {"cloudflare"})
  /\ SentAs(call.response.headers, "X-Content-Type-Options", {"NoSniff"})
  /\ Sent(call.response.headers, "Feature-Policy")
  /\ ret.data.security_score = Num(100)
  /\ ret.data.security_issues = <<Excellent>>

(***************************************************************************)
(* Properties of the heuristic path.                                       *)
(***************************************************************************)
SaveLeadReturned ==
  call.fn = "_save_lead_to_database" /\ ret.state = "returned"

\* C38: _calculate_lead_strength of the score of _calculate_initial_score
\* is never strong: a business with a website scores at least 55, a
\* business without one is not strong for the lack of it.
C38_HeuristicNeverStrong ==
  SaveLeadReturned =>
    /\ ret.str \in {"medium", "weak"}
    /\ Truthy(Get(call.business.website, PyNone)) => ret.int >= 55

\* witness of C38: the lowest score, 25, of a business without website,
\* classed as medium
C38_LowestScoreIsMedium ==
  /\ SaveLeadReturned
  /\ ~Truthy(Get(call.business.website, PyNone))
  /\ ret.int = 25
  /\ ret.str = "medium"

(***************************************************************************)
(* Properties of the batch of a page.                                      *)
(***************************************************************************)
\* the filter loop has left the page with a business that passes the
\* filters at or after its position
QualifyingLeft ==
  \E i \in idx..Len(businesses) :
    /\ ~_passes_filters_raises(businesses[i], filters)
    /\ _passes_filters(businesses[i], filters)

\* the run has returned partial, no fetch failed and the scan ceiling is
\* not reached
PartialWithoutCause ==
  /\ pc = "done"
  /\ result.status = "partial"
  /\ last_fetch \notin {"error", "timeout"}
  /\ scanned_count < max_scan_limit

\* C35: a run that ends partial without a fetch failure and below the
\* scan ceiling has dispatched every business of its page that passes the
\* filters: the filter loop has left none of them unexamined.
C35_NoQualifyingLeftBehind == PartialWithoutCause => ~QualifyingLeft

\* the part of C35 that holds: the filter loop leaves a business behind
\* only when the batch it has collected can reach the target
BatchCanReachTarget ==
  pc = "filtered" /\ QualifyingLeft =>
    Len(passed_businesses) + Len(found_leads) >= target_results

\* C36: no task of a batch is queued or running when the executor block
\* is left, and none outside it: when a page is requested and when
\* process_bulk_search returns every task of the run has finished.
C36_BatchJoined ==
  [][/\ (PoolOpen /\ ~PoolOpen') =>
          \A i \in DOMAIN futures : futures[i].state = "finished"
     /\ ~PoolOpen' =>
          \A i \in DOMAIN futures' :
            futures'[i].state \notin {"queued", "running"}]_vars

\* witness of C36: the executor block is about to be left with the target
\* reached and a batch of three tasks, all finished
C36_JoinedAtTarget ==
  /\ pc = "shutdown"
  /\ Len(futures) >= 3
  /\ Len(found_leads) >= target_results
  /\ \A i \in DOMAIN futures : futures[i].state = "finished"

\* C37: when the as_completed loop is left, every task of the batch has
\* been yielded and the lead of every task that succeeded is in
\* found_leads: the target is not reached before the last task.
C37_NoLeadDiscarded ==
  pc = "shutdown" =>
    /\ n_yielded = Len(futures)
    /\ \A i \in DOMAIN futures :
         (futures[i].state = "finished" /\ futures[i].success) =>
           \E k \in DOMAIN found_leads :
             found_leads[k].id = <<page_count, i>>

\* witness of C37: the target is reached by the last of the tasks of a
\* batch, which all succeeded
C37_TargetByLastTask ==
  /\ pc = "shutdown"
  /\ Len(futures) >= 2
  /\ Len(found_leads) = target_results
  /\ \A i \in DOMAIN futures : futures[i].success

(***************************************************************************)
(* Properties of the analyzer of the process.                              *)
(***************************************************************************)
\* thread t has got an instance from get_analyzer
HasAnalyzer(t) == threads[t].pc \in {"run", "done"}

\* C34: a thread that runs a search, or has run one, got an analyzer that
\* has the key of the listing source and a record store: without one of
\* them the construction raised and no run started.
C34_NoRunWithoutCredentials ==
  \A t \in Threads :
    HasAnalyzer(t) =>
      /\ instances[threads[t].analyzer].rapidapi_key
      /\ instances[threads[t].analyzer].supabase

\* what the constructor does guarantee: a run starts only when the URL and
\* the key of the store are set
RunOnlyWithStoreSettings ==
  (\E t \in Threads : HasAnalyzer(t)) =>
    {"SUPABASE_URL", "SUPABASE_KEY"} \subseteq environ

\* C39: at most one DeepAnalyzer is constructed, and every thread that got
\* an instance got that one.
C39_OneInstance ==
  /\ Len(instances) <= 1
  /\ \A t, u \in Threads :
       HasAnalyzer(t) /\ HasAnalyzer(u) =>
         threads[t].analyzer = threads[u].analyzer

\* what holds of sequential calls: a call that starts after an instance
\* was assigned returns the instance that is assigned then
ReturnsTheGlobal ==
  [][\A t \in Threads :
       (threads[t].pc = "return" /\ threads'[t].pc = "run") =>
         threads'[t].analyzer = _analyzer_instance]_vars

(***************************************************************************)
(* Properties of the save step.                                            *)
(***************************************************************************)
\* C40: an enrichment that reached its save step without a store, or whose
\* upsert raised, returns its record with success: analyze_business
\* answers {"success": True, "data": record}, which the run appends to
\* found_leads and hands to the stream callback.
C40_SinkFailureKeepsLead ==
  enrich.sink \in {"unavailable", "failed"} =>
    /\ enrich.pc = "returned"
    /\ enrich.success = "true"
    /\ enrich.lead.k = "dict"

\* witness of C40: the upsert of a fully analysed website raised and the
\* record with its issues was returned
C40_ReturnedAfterFailedUpsert ==
  /\ enrich.sink = "failed"
  /\ enrich.has_website
  /\ enrich.success = "true"
  /\ enrich.lead.issues # <<>>

====
